---- MODULE Spec2Model ----
(***************************************************************************)
(* Scan lifecycle of the daqhats Python binding (mcc128.py, mcc172.py).   *)
(* The binding validates arguments, calls the native library through its  *)
(* C ABI and maps the native result codes to Python results/exceptions.   *)
(* The native library is not part of the Python sources; its scan engine  *)
(* (Native* definitions, acquisition thread) follows the design document. *)
(***************************************************************************)
EXTENDS Integers, Sequences, FiniteSets, TLC

\* ---------------------------------------------------------------- bounds
MaxSamples == 2

\* ------------------------------------------------------------- constants
\* hats.py, class Hat
RESULT_SUCCESS == 0
RESULT_BAD_PARAMETER == -1
RESULT_BUSY == -2
RESULT_TIMEOUT == -3
RESULT_RESOURCE_UNAVAIL == -6
RESULT_INVALID_DEVICE == -5
RESULT_COMMS_FAILURE == -7
RESULT_UNDEFINED == -10

\* hats.py, class OptionFlags
OPT_DEFAULT == 0
OPT_EXTCLOCK == 4
OPT_EXTTRIGGER == 8
OPT_CONTINUOUS == 16

\* mcc128.py / mcc172.py status bits
STATUS_HW_OVERRUN == 1
STATUS_BUFFER_OVERRUN == 2
STATUS_TRIGGERED == 4
STATUS_RUNNING == 8

\* mcc128._MAX_SAMPLE_RATE
MAX_SAMPLE_RATE_128 == 100000

Boards == {"mcc128", "mcc172"}

\* mcc172.py, class SourceType
SourceType_LOCAL == 0
SourceType_MASTER == 1
SourceType_SLAVE == 2

\* hats.py, class TriggerModes
TriggerModes_RISING_EDGE == 0
TriggerModes_FALLING_EDGE == 1

\* mcc172._MAX_SAMPLE_RATE, the ADC clock before any division
MAX_SAMPLE_RATE_172 == 51200

\* examples/python/mcc172/multi_hat_synchronous_scan.py: boards of the group
DEVICE_COUNT == 2

\* ---------------------------------------------------------------- inputs
ChannelMasks == {0, 1, 3, 255, 257}
ScanCounts == {MaxSamples}
SampleRates == {50000, 100001}
ScanOptions == {OPT_DEFAULT, OPT_EXTCLOCK, OPT_EXTTRIGGER, OPT_CONTINUOUS}
ReadCounts == (-1)..MaxSamples
Timeouts == {-1, 0, 1}
StartFaults == {RESULT_SUCCESS, RESULT_RESOURCE_UNAVAIL, RESULT_COMMS_FAILURE}
CallFaults == {RESULT_SUCCESS, RESULT_COMMS_FAILURE}
\* board addresses given to the constructor, and results of the native open
Addresses == {-1, 0, 7, 8}
OpenResults == {RESULT_SUCCESS, RESULT_INVALID_DEVICE, RESULT_COMMS_FAILURE}
\* mcc172.py, class SourceType: LOCAL, MASTER, SLAVE
ClockSources == {0, 1, 2}

\* a_in_scan_start calls: every mask with every rate, every option with the
\* one- and two-channel masks, and one valid call for each fault the native
\* layer may report
StartCalls ==
    {c \in [m : ChannelMasks, n : ScanCounts, r : SampleRates,
            o : ScanOptions, f : StartFaults] :
        /\ c.o # OPT_DEFAULT => (c.m \in {1, 3} /\ c.r = 50000)
        /\ c.f # RESULT_SUCCESS =>
              (c.m = 1 /\ c.r = 50000 /\ c.o = OPT_DEFAULT)}

\* a_in_scan_read calls, likewise
ReadCalls ==
    {c \in [n : ReadCounts, t : Timeouts, f : CallFaults] :
        c.f # RESULT_SUCCESS => (c.n = 1 /\ c.t = 0)}

\* --------------------------------------------------------------- helpers
\* (x & bit) != 0 for a single-bit mask
HasBit(x, bit) == (x \div bit) % 2 = 1

Pow2(i) == CASE i = 0 -> 1 [] i = 1 -> 2 [] i = 2 -> 4 [] i = 3 -> 8
             [] i = 4 -> 16 [] i = 5 -> 32 [] i = 6 -> 64 [] i = 7 -> 128

Max(a, b) == IF a > b THEN a ELSE b
Min(a, b) == IF a < b THEN a ELSE b

\* ctypes conversion of a Python int to c_ubyte: no overflow check, the value
\* is truncated to 8 bits
c_ubyte(x) == x % 256

\* the counting loop of a_in_scan_start: for index in range(n): if
\* (channel_mask & (1 << index)) != 0: num_channels += 1
CountChannels(channel_mask, n) ==
    Cardinality({index \in 0..(n - 1) : HasBit(channel_mask, Pow2(index))})

VARIABLES
    board,              \* board type behind the handle
    clock_live,         \* a sample clock is present for the active scan
    scan_active,        \* native: scan buffer/thread allocated
    status,             \* native: 16-bit status word
    channel_count,      \* native: channels in the active scan (0 if none)
    scan_options,       \* native: options of the active scan
    scan_samples,       \* native: samples_per_channel of the active scan
    buffer_size,        \* native: scan buffer capacity, samples per channel
    samples_acquired,   \* native: samples per channel acquired so far
    samples_in_buffer,  \* native: samples per channel not yet read
    read_index,         \* native: samples per channel already read
    handle,             \* the board object: "none", "live", "failed", "gone"
    initialized,        \* the object's _initialized flag
    dev_open,           \* native: the device at the address is open
    synced,             \* native: the ADCs are synchronized (MCC 172)
    pc,                 \* caller position: "idle", "read_all", "waiting",
                        \* "starting"
    call,               \* arguments/locals of the call in progress
    timer_expired,      \* the timeout of the waiting read has elapsed
    last,               \* result of the most recent completed call
    values_returned,    \* values returned by the reads of the current scan
    hats,               \* group of MCC 172 boards: native state by address
    hlast,              \* result of the most recent call on a board of the
                        \* group
    libc,               \* the native library for this process: "unprobed",
                        \* "available", "missing"
    callbacks,          \* HatCallback objects: function, user_data, cbfunc
    HAT_CALLBACK,       \* the module global _HAT_CALLBACK: object or -1
    native_callback,    \* native: the registered wrapper
    int_active,         \* the interrupt signal is active
    invoked,            \* what the interrupt thread called at the last
                        \* interrupt
    ilast,              \* result of the most recent interrupt call
    calc,               \* result of the most recent static method call
    dio_output,         \* MCC 152, native: the digital output register
    aout,               \* MCC 152, native: the value each analog output
                        \* was last given
    mlast,              \* result of the most recent MCC 152 call
    selected,           \* multi-HAT example: addresses of the boards in
                        \* the list select_hat_devices returned
    xpc                 \* multi-HAT example: statement of main reached,
                        \* and the list index of its loop

nativeVars == <<scan_active, status, channel_count, scan_options, scan_samples,
                buffer_size, samples_acquired, samples_in_buffer, read_index>>
envVars == <<board, clock_live>>
handleVars == <<handle, initialized, dev_open, synced>>
callVars == <<pc, call, timer_expired>>
groupVars == <<hats, hlast>>
\* state outside the single board object followed by the scan lifecycle
intVars == <<libc, callbacks, HAT_CALLBACK, native_callback, int_active,
             invoked, ilast>>
calcVars == <<calc>>
dioVars == <<dio_output, aout, mlast>>
exVars == <<selected, xpc>>
restVars == <<calcVars, dioVars, exVars>>
otherVars == <<groupVars, intVars, restVars>>
vars == <<handle, initialized, dev_open, synced, board, clock_live, scan_active, status, channel_count, scan_options,
          scan_samples, buffer_size, samples_acquired, samples_in_buffer,
          read_index, pc, call, timer_expired, last, values_returned>>
allVars == <<vars, otherVars>>

NoData == [first |-> 0, len |-> 0]

NoCall == [samples_per_channel |-> 0, timeout |-> 0, num_channels |-> 0,
           samples_to_read |-> 0, buffer_size |-> 0, status_before |-> -1,
           channel_mask |-> 0, rate |-> 0, options |-> 0]

NoResult == [op |-> "none", outcome |-> "none", msg |-> "",
             channel_mask |-> 0, samples_per_channel |-> 0, rate |-> 0,
             options |-> 0, timeout |-> 0,
             was_active |-> FALSE, native_called |-> FALSE, fault |-> 0,
             running |-> FALSE, hardware_overrun |-> FALSE,
             buffer_overrun |-> FALSE, triggered |-> FALSE,
             timed_out |-> FALSE, samples_available |-> 0,
             status_before |-> -1, waited |-> FALSE, code |-> 0, word |-> 0,
             available |-> 0, data |-> NoData,
             was_running |-> FALSE, address |-> 0, clock_source |-> 0,
             calls |-> <<>>, buffer_size |-> 0]

\* ------------------------------------------------------- native library
Running == HasBit(status, STATUS_RUNNING)
Triggered == HasBit(status, STATUS_TRIGGERED)
Continuous == HasBit(scan_options, OPT_CONTINUOUS)

NumBoardChannels(b) == IF b = "mcc128" THEN 8 ELSE 2

\* channel mask accepted by the native scan start: non-zero and only
\* channels that exist on the board
NativeMaskValid(b, mask) ==
    /\ mask # 0
    /\ mask < Pow2(NumBoardChannels(b) - 1) * 2

\* rate-tiered minimum buffer size of a continuous scan (samples/channel)
RateTierMinimum(b, rate) ==
    IF b = "mcc128"
    THEN IF rate <= 100 THEN 1000 ELSE IF rate <= 10000 THEN 10000 ELSE 100000
    ELSE IF rate <= 1024 THEN 1000 ELSE IF rate <= 10240 THEN 10000 ELSE 100000

\* the MCC 172 scans at its configured ADC clock rate (51.2 kHz after open)
DefaultRate172 == 51200

NativeBufferSize(b, samples_per_channel, rate, options) ==
    IF HasBit(options, OPT_CONTINUOUS)
    THEN Max(samples_per_channel, RateTierMinimum(b, rate))
    ELSE samples_per_channel

\* result code of the native scan start entry point
NativeScanStartResult(b, mask, samples_per_channel, rate, options, fault) ==
    IF fault = RESULT_COMMS_FAILURE THEN RESULT_COMMS_FAILURE
    ELSE IF scan_active THEN RESULT_BUSY
    ELSE IF \/ ~NativeMaskValid(b, mask)
            \/ (samples_per_channel = 0 /\ ~HasBit(options, OPT_CONTINUOUS))
            \/ (b = "mcc172" /\ HasBit(options, OPT_EXTCLOCK))
            \/ (b = "mcc128" /\
                CountChannels(mask, 8) * rate > MAX_SAMPLE_RATE_128)
         THEN RESULT_BAD_PARAMETER
    ELSE IF fault = RESULT_RESOURCE_UNAVAIL THEN RESULT_RESOURCE_UNAVAIL
    ELSE RESULT_SUCCESS

\* state change of a successful native scan start
NativeScanBegin(b, mask, samples_per_channel, rate, options) ==
    /\ scan_active' = TRUE
    /\ status' = STATUS_RUNNING +
                 (IF HasBit(options, OPT_EXTTRIGGER) THEN 0
                  ELSE STATUS_TRIGGERED)
    /\ channel_count' = CountChannels(mask, NumBoardChannels(b))
    /\ scan_options' = options
    /\ scan_samples' = samples_per_channel
    /\ buffer_size' = NativeBufferSize(b, samples_per_channel, rate, options)
    /\ samples_acquired' = 0
    /\ samples_in_buffer' = 0
    /\ read_index' = 0

NativeIdle ==
    /\ scan_active = FALSE
    /\ status = 0
    /\ channel_count = 0
    /\ scan_options = 0
    /\ scan_samples = 0
    /\ buffer_size = 0
    /\ samples_acquired = 0
    /\ samples_in_buffer = 0
    /\ read_index = 0

\* state change of the native scan cleanup: everything of the scan is freed
NativeScanRelease ==
    /\ scan_active' = FALSE
    /\ status' = 0
    /\ channel_count' = 0
    /\ scan_options' = 0
    /\ scan_samples' = 0
    /\ buffer_size' = 0
    /\ samples_acquired' = 0
    /\ samples_in_buffer' = 0
    /\ read_index' = 0

\* ------------------------------------------ group of MCC 172 boards
HatAddresses == 0..(DEVICE_COUNT - 1)

\* native state of one board after it was opened: local clock at 51.2 kHz,
\* ADCs synchronized, no scan
HatAfterOpen ==
    [clock_source |-> SourceType_LOCAL,
     sample_rate |-> MAX_SAMPLE_RATE_172,
     synced |-> TRUE,
     trigger_source |-> SourceType_LOCAL,
     trigger_mode |-> TriggerModes_RISING_EDGE,
     scan_active |-> FALSE,
     status |-> 0,
     samples_acquired |-> 0,
     samples_in_buffer |-> 0,
     pc |-> "idle",
     samples_to_read |-> 0]

NoHatResult ==
    [op |-> "none", address |-> 0, outcome |-> "none", msg |-> "",
     was_active |-> FALSE, fault |-> 0,
     clock_source |-> 0, sample_rate |-> 0, synchronized |-> FALSE,
     trigger_source |-> 0, trigger_mode |-> 0,
     running |-> FALSE, hardware_overrun |-> FALSE,
     buffer_overrun |-> FALSE, triggered |-> FALSE, timed_out |-> FALSE,
     samples_available |-> 0, data_len |-> 0]

GroupIdle ==
    /\ hats = [a \in HatAddresses |-> HatAfterOpen]
    /\ hlast = NoHatResult

\* the HatCallback objects the model follows
CallbackObjects == 0..1
NoCallback == [function |-> "none", cbfunc |-> FALSE, user_data |-> "None"]
NoNativeCallback == [object |-> -1, alive |-> FALSE]
NoInvocation == [function |-> "none", user_data |-> "None"]
NoIntResult ==
    [op |-> "none", outcome |-> "none", msg |-> "", function |-> "none",
     object |-> -1, user_data |-> "None", library |-> FALSE, fault |-> 0]

\* module import: _HAT_CALLBACK = None, nothing loaded, nothing registered
InterruptIdle ==
    /\ libc = "unprobed"
    /\ callbacks = [o \in CallbackObjects |-> NoCallback]
    /\ HAT_CALLBACK = -1
    /\ native_callback = NoNativeCallback
    /\ int_active = FALSE
    /\ invoked = NoInvocation
    /\ ilast = NoIntResult

NoRate == [num |-> 0, den |-> 1]
NoCalc == [op |-> "none", requested |-> NoRate, divisor |-> 0,
           actual |-> NoRate]

\* an analog output that was never written
NoAOut == [value |-> 0, options |-> 0]
NoMcc152Result ==
    [op |-> "none", outcome |-> "none", msg |-> "", fault |-> 0,
     value_dict |-> <<>>, before |-> 0, values |-> 0, writes |-> 0,
     channel |-> 0, options |-> 0, requested |-> <<>>, passed |-> <<>>]

\* MCC 152 after the open: output register all 1 (dio_reset docstring),
\* analog outputs never written
\* the example before select_hat_devices
ExampleIdle ==
    /\ selected = <<>>
    /\ xpc = [at |-> "select", i |-> 0]

Mcc152Idle ==
    /\ dio_output = 255
    /\ aout = [c \in 0..1 |-> NoAOut]
    /\ mlast = NoMcc152Result

Init ==
    /\ GroupIdle
    /\ ExampleIdle
    /\ InterruptIdle
    /\ calc = NoCalc
    /\ Mcc152Idle
    /\ handle = "none"
    /\ initialized = FALSE
    /\ dev_open = FALSE
    /\ synced = TRUE
    /\ board \in Boards
    /\ clock_live = TRUE
    /\ NativeIdle
    /\ pc = "idle"
    /\ call = NoCall
    /\ timer_expired = FALSE
    /\ last = NoResult
    /\ values_returned = 0

\* "Incorrect response {}.".format(result)
IncorrectResponse(result) ==
    CASE result = RESULT_COMMS_FAILURE -> "Incorrect response -7."
      [] result = RESULT_RESOURCE_UNAVAIL -> "Incorrect response -6."
      [] result = RESULT_BUSY -> "Incorrect response -2."
      [] result = RESULT_TIMEOUT -> "Incorrect response -3."
      [] result = RESULT_BAD_PARAMETER -> "Incorrect response -1."
      [] OTHER -> "Incorrect response."

\* --------------------------------------- a_in_clock_config_write (172)
NativeClockConfigWriteResult(fault) ==
    IF fault # RESULT_SUCCESS THEN fault
    ELSE IF scan_active THEN RESULT_BUSY
    ELSE RESULT_SUCCESS

\* variant: the test of the success code is inverted
ClockConfigOutcome_SuccessRaised(result) ==
    IF result = RESULT_BUSY
    THEN [outcome |-> "HatError",
          msg |-> "Cannot change the clock configuration while a scan is active."]
    ELSE IF result = RESULT_SUCCESS
    THEN [outcome |-> "HatError", msg |-> "Incorrect response."]
    ELSE [outcome |-> "ok", msg |-> ""]

\* mapping of the native clock configuration write result
ClockConfigOutcome(result) ==
    IF result = RESULT_BUSY
    THEN [outcome |-> "HatError",
          msg |-> "Cannot change the clock configuration while a scan is active."]
    ELSE IF result # RESULT_SUCCESS
    THEN [outcome |-> "HatError", msg |-> "Incorrect response."]
    ELSE [outcome |-> "ok", msg |-> ""]

\* writing the clock configuration starts a synchronization of the ADCs;
\* the call returns while it is in progress
a_in_clock_config_write(clock_source, fault) ==
    /\ handle = "live" /\ pc = "idle"
    /\ board = "mcc172"
    /\ LET result == NativeClockConfigWriteResult(fault)
           res == ClockConfigOutcome(result)
       IN /\ synced' = IF result = RESULT_SUCCESS THEN FALSE ELSE synced
          /\ last' = [NoResult EXCEPT
                        !.op = "clock_config_write",
                        !.outcome = res.outcome, !.msg = res.msg,
                        !.clock_source = clock_source,
                        !.was_active = scan_active,
                        !.native_called = TRUE, !.fault = fault]
    /\ UNCHANGED <<otherVars, handle, initialized, dev_open, envVars, nativeVars,
                   callVars, values_returned>>

\* the ADCs finish their synchronization
SyncComplete ==
    /\ ~synced
    /\ synced' = TRUE
    /\ UNCHANGED <<otherVars, handle, initialized, dev_open, envVars, nativeVars,
                   callVars, last, values_returned>>

\* ------------------------------------------------------ a_in_scan_start
\* variant: the rate check written with >= (a request exactly at the ceiling
\* is refused)
StartArgError_AtCeilingRefused(b, channel_mask, rate) ==
    IF b = "mcc128"
    THEN IF channel_mask = 0 THEN "channel_mask must be nonzero."
         ELSE IF CountChannels(channel_mask, 8) * rate >= MAX_SAMPLE_RATE_128
              THEN "Invalid sample_rate_per_channel, exceeds maximum rate for device."
              ELSE ""
    ELSE IF (channel_mask = 0) \/ (channel_mask > 3)
         THEN "channel_mask must be 1 - 3"
         ELSE ""

\* Python-side argument checking; "" means the native entry point is called
StartArgError(b, channel_mask, rate) ==
    IF b = "mcc128"
    THEN IF channel_mask = 0 THEN "channel_mask must be nonzero."
         ELSE IF CountChannels(channel_mask, 8) * rate > MAX_SAMPLE_RATE_128
              THEN "Invalid sample_rate_per_channel, exceeds maximum rate for device."
              ELSE ""
    ELSE IF (channel_mask = 0) \/ (channel_mask > 3)
         THEN "channel_mask must be 1 - 3"
         ELSE ""

\* variant: the busy result is not tested, so the call returns normally
StartOutcome_BusyIgnored(result) ==
    IF result = RESULT_BAD_PARAMETER
    THEN [outcome |-> "ValueError", msg |-> "Invalid scan parameter."]
    ELSE IF result = RESULT_RESOURCE_UNAVAIL
    THEN [outcome |-> "HatError", msg |-> "Memory could not be allocated."]
    ELSE IF result # RESULT_SUCCESS /\ result # RESULT_BUSY
    THEN [outcome |-> "HatError", msg |-> IncorrectResponse(result)]
    ELSE [outcome |-> "ok", msg |-> ""]

\* mapping of the native scan start result to the Python outcome
StartOutcome(result) ==
    IF result = RESULT_BAD_PARAMETER
    THEN [outcome |-> "ValueError", msg |-> "Invalid scan parameter."]
    ELSE IF result = RESULT_BUSY
    THEN [outcome |-> "HatError", msg |-> "A scan is already active."]
    ELSE IF result = RESULT_RESOURCE_UNAVAIL
    THEN [outcome |-> "HatError", msg |-> "Memory could not be allocated."]
    ELSE IF result # RESULT_SUCCESS
    THEN [outcome |-> "HatError", msg |-> IncorrectResponse(result)]
    ELSE [outcome |-> "ok", msg |-> ""]

\* variant: the CONTINUOUS flag is always handed over
StartOptions_AlwaysContinuous(options) ==
    IF HasBit(options, OPT_CONTINUOUS) THEN options
    ELSE options + OPT_CONTINUOUS

\* variant: the EXTTRIGGER flag is not handed over
StartOptions_TriggerDropped(options) ==
    IF HasBit(options, OPT_EXTTRIGGER) THEN options - OPT_EXTTRIGGER
    ELSE options

\* options word handed to the native scan start
StartOptions(options) == options

\* rate the native layer sizes the buffer with
StartRate(b, rate) == IF b = "mcc128" THEN rate ELSE DefaultRate172

\* with EXTCLOCK the samples are paced by the signal at CLK, which the
\* environment may or may not supply
ExternalClock(options) ==
    IF HasBit(options, OPT_EXTCLOCK) THEN BOOLEAN ELSE {TRUE}

\* the call goes through to its return: argument check, native scan start,
\* mapping of the result
StartReturn(channel_mask, samples_per_channel, rate, options, fault) ==
    /\ LET err == StartArgError(board, channel_mask, rate)
           mask8 == c_ubyte(channel_mask)
           result == NativeScanStartResult(board, mask8, samples_per_channel,
                         StartRate(board, rate), StartOptions(options), fault)
           res == IF err # "" THEN [outcome |-> "ValueError", msg |-> err]
                  ELSE StartOutcome(result)
       IN /\ IF err = "" /\ result = RESULT_SUCCESS
             THEN /\ NativeScanBegin(board, mask8, samples_per_channel,
                         StartRate(board, rate), StartOptions(options))
                  /\ clock_live' \in ExternalClock(StartOptions(options))
                  /\ values_returned' = 0
             ELSE UNCHANGED <<nativeVars, clock_live, values_returned>>
          /\ last' = [NoResult EXCEPT
                        !.op = "start", !.outcome = res.outcome,
                        !.msg = res.msg, !.channel_mask = channel_mask,
                        !.samples_per_channel = samples_per_channel,
                        !.rate = rate, !.options = options,
                        !.was_active = scan_active,
                        !.native_called = (err = ""),
                        !.fault = IF err = "" THEN fault ELSE 0,
                        !.waited = (pc = "starting")]
    /\ pc' = "idle"
    /\ call' = NoCall
    /\ timer_expired' = FALSE
    /\ UNCHANGED <<otherVars, board, handleVars>>

\* the native scan start of the MCC 172 does not return until the ADCs are
\* synchronized
StartBlock(channel_mask, samples_per_channel, rate, options) ==
    /\ pc' = "starting"
    /\ call' = [NoCall EXCEPT !.channel_mask = channel_mask,
                              !.samples_per_channel = samples_per_channel,
                              !.rate = rate, !.options = options]
    /\ last' = NoResult
    /\ UNCHANGED <<otherVars, envVars, handleVars, nativeVars, timer_expired,
                   values_returned>>

\* entry of a_in_scan_start up to its return or its suspension
a_in_scan_start(channel_mask, samples_per_channel, rate, options, fault) ==
    /\ handle = "live" /\ pc = "idle"
    /\ IF /\ board = "mcc172" /\ ~synced
          /\ StartArgError(board, channel_mask, rate) = ""
          /\ NativeScanStartResult(board, c_ubyte(channel_mask),
                 samples_per_channel, StartRate(board, rate),
                 StartOptions(options), fault) = RESULT_SUCCESS
       THEN StartBlock(channel_mask, samples_per_channel, rate, options)
       ELSE StartReturn(channel_mask, samples_per_channel, rate, options,
                        fault)

\* the synchronization has completed: the blocked scan start goes on
StartResume ==
    /\ pc = "starting"
    /\ synced
    /\ StartReturn(call.channel_mask, call.samples_per_channel, call.rate,
                   call.options, RESULT_SUCCESS)

\* ----------------------------------------------------- a_in_scan_status
NativeScanStatusResult(fault) ==
    IF fault # RESULT_SUCCESS THEN fault
    ELSE IF ~scan_active THEN RESULT_RESOURCE_UNAVAIL
    ELSE RESULT_SUCCESS

\* variant: the "resource unavailable" result is not told apart
StatusOutcome_NotActiveUnmapped(result) ==
    IF result # RESULT_SUCCESS
    THEN [outcome |-> "HatError", msg |-> IncorrectResponse(result)]
    ELSE [outcome |-> "ok", msg |-> ""]

\* mapping of the native scan status result to the Python outcome
StatusOutcome(result) ==
    IF result = RESULT_RESOURCE_UNAVAIL
    THEN [outcome |-> "HatError", msg |-> "Scan not active."]
    ELSE IF result # RESULT_SUCCESS
    THEN [outcome |-> "HatError", msg |-> IncorrectResponse(result)]
    ELSE [outcome |-> "ok", msg |-> ""]

\* variant: running is taken from the triggered bit
DecodeStatus_RunningFromTriggered(r, word) ==
    [r EXCEPT !.running = HasBit(word, STATUS_TRIGGERED),
              !.hardware_overrun = HasBit(word, STATUS_HW_OVERRUN),
              !.buffer_overrun = HasBit(word, STATUS_BUFFER_OVERRUN),
              !.triggered = HasBit(word, STATUS_TRIGGERED)]

\* variant: the two overrun bits are exchanged
DecodeStatus_OverrunsSwapped(r, word) ==
    [r EXCEPT !.running = HasBit(word, STATUS_RUNNING),
              !.hardware_overrun = HasBit(word, STATUS_BUFFER_OVERRUN),
              !.buffer_overrun = HasBit(word, STATUS_HW_OVERRUN),
              !.triggered = HasBit(word, STATUS_TRIGGERED)]

\* variant: running is true for every word of 8 or more
DecodeStatus_RunningFromHighBits(r, word) ==
    [r EXCEPT !.running = word >= STATUS_RUNNING,
              !.hardware_overrun = HasBit(word, STATUS_HW_OVERRUN),
              !.buffer_overrun = HasBit(word, STATUS_BUFFER_OVERRUN),
              !.triggered = HasBit(word, STATUS_TRIGGERED)]

\* decoding of the native status word into the namedtuple flags
DecodeStatus(r, word) ==
    [r EXCEPT !.running = HasBit(word, STATUS_RUNNING),
              !.hardware_overrun = HasBit(word, STATUS_HW_OVERRUN),
              !.buffer_overrun = HasBit(word, STATUS_BUFFER_OVERRUN),
              !.triggered = HasBit(word, STATUS_TRIGGERED)]

a_in_scan_status(fault) ==
    /\ handle = "live" /\ pc = "idle"
    /\ LET result == NativeScanStatusResult(fault)
           res == StatusOutcome(result)
           base == [NoResult EXCEPT !.op = "status", !.outcome = res.outcome,
                      !.msg = res.msg, !.was_active = scan_active,
                      !.native_called = TRUE, !.fault = fault]
       IN last' = IF res.outcome = "ok"
                  THEN [DecodeStatus(base, status) EXCEPT
                          !.word = status,
                          !.samples_available = samples_in_buffer]
                  ELSE base
    /\ UNCHANGED <<otherVars, envVars, handleVars, nativeVars, callVars, values_returned>>

\* ------------------------------------------------------- a_in_scan_stop
NativeScanStopResult(fault) ==
    IF fault # RESULT_SUCCESS THEN fault ELSE RESULT_SUCCESS

\* variant: the comparison with the success code is inverted
StopOutcome_Inverted(result) ==
    IF result = RESULT_SUCCESS
    THEN [outcome |-> "HatError", msg |-> "Incorrect response."]
    ELSE [outcome |-> "ok", msg |-> ""]

\* a_in_scan_stop and a_in_scan_cleanup raise the same error for every
\* result other than success
StopOutcome(result) ==
    IF result # RESULT_SUCCESS
    THEN [outcome |-> "HatError", msg |-> "Incorrect response."]
    ELSE [outcome |-> "ok", msg |-> ""]

a_in_scan_stop(fault) ==
    /\ handle = "live" /\ pc \in {"idle", "waiting"}
    /\ LET result == NativeScanStopResult(fault)
       IN /\ IF result = RESULT_SUCCESS /\ scan_active /\ Running
             THEN status' = status - STATUS_RUNNING
             ELSE UNCHANGED status
          /\ last' = [NoResult EXCEPT
                        !.op = "stop",
                        !.outcome = StopOutcome(result).outcome,
                        !.msg = StopOutcome(result).msg,
                        !.was_active = scan_active,
                        !.was_running = Running,
                        !.native_called = TRUE, !.fault = fault]
    /\ UNCHANGED <<otherVars, envVars, handleVars, scan_active, channel_count, scan_options,
                   scan_samples, buffer_size, samples_acquired,
                   samples_in_buffer, read_index, callVars, values_returned>>

\* ---------------------------------------------------- a_in_scan_cleanup
NativeScanCleanupResult(fault) ==
    IF fault # RESULT_SUCCESS THEN fault
    ELSE IF ~scan_active THEN RESULT_RESOURCE_UNAVAIL
    ELSE RESULT_SUCCESS

CleanupOutcome(result) ==
    IF result # RESULT_SUCCESS
    THEN [outcome |-> "HatError", msg |-> "Incorrect response."]
    ELSE [outcome |-> "ok", msg |-> ""]

a_in_scan_cleanup(fault) ==
    /\ handle = "live" /\ pc = "idle"
    /\ LET result == NativeScanCleanupResult(fault)
       IN /\ IF result = RESULT_SUCCESS
             THEN NativeScanRelease /\ clock_live' = TRUE
             ELSE UNCHANGED <<nativeVars, clock_live>>
          /\ last' = [NoResult EXCEPT
                        !.op = "cleanup",
                        !.outcome = CleanupOutcome(result).outcome,
                        !.msg = CleanupOutcome(result).msg,
                        !.was_active = scan_active,
                        !.native_called = TRUE, !.fault = fault]
    /\ UNCHANGED <<otherVars, board, handleVars, callVars, values_returned>>

\* ------------------------------------------------ a_in_scan_buffer_size
\* the native buffer size entry point: result code, and the size of the scan
\* buffer in samples over all channels
NativeScanBufferSize(fault) ==
    IF fault # RESULT_SUCCESS THEN [code |-> fault, value |-> 0]
    ELSE IF ~scan_active THEN [code |-> RESULT_RESOURCE_UNAVAIL, value |-> 0]
    ELSE [code |-> RESULT_SUCCESS, value |-> buffer_size * channel_count]

\* variant: the "resource unavailable" result is not told apart
BufferSizeOutcome_NotActiveUnmapped(result) ==
    IF result # RESULT_SUCCESS
    THEN [outcome |-> "HatError", msg |-> IncorrectResponse(result)]
    ELSE [outcome |-> "ok", msg |-> ""]

\* mapping of the native buffer size result to the Python outcome
BufferSizeOutcome(result) ==
    IF result = RESULT_RESOURCE_UNAVAIL
    THEN [outcome |-> "HatError", msg |-> "No scan is active."]
    ELSE IF result # RESULT_SUCCESS
    THEN [outcome |-> "HatError", msg |-> IncorrectResponse(result)]
    ELSE [outcome |-> "ok", msg |-> ""]

a_in_scan_buffer_size(fault) ==
    /\ handle = "live" /\ pc = "idle"
    /\ LET r == NativeScanBufferSize(fault)
           res == BufferSizeOutcome(r.code)
       IN last' = [NoResult EXCEPT
                     !.op = "buffer_size", !.outcome = res.outcome,
                     !.msg = res.msg, !.was_active = scan_active,
                     !.native_called = TRUE, !.fault = fault,
                     !.code = r.code,
                     !.buffer_size = IF res.outcome = "ok" THEN r.value
                                     ELSE 0]
    /\ UNCHANGED <<otherVars, envVars, handleVars, nativeVars, callVars,
                   values_returned>>

\* ------------------------------------------------- __init__ / __del__
\* Hat.__init__: the address check; "" means the address is accepted
AddressError(address) ==
    IF address \in 0..7 THEN "" ELSE "Invalid address. Must be 0-7."

\* variant: the two failure messages are exchanged
OpenOutcome_MessagesSwapped(result) ==
    IF result = RESULT_SUCCESS THEN [outcome |-> "ok", msg |-> ""]
    ELSE IF result = RESULT_INVALID_DEVICE
    THEN [outcome |-> "HatError", msg |-> "Board not responding."]
    ELSE [outcome |-> "HatError", msg |-> "Invalid board type."]

\* mapping of the native open result in the constructor of the board class
OpenOutcome(result) ==
    IF result = RESULT_SUCCESS THEN [outcome |-> "ok", msg |-> ""]
    ELSE IF result = RESULT_INVALID_DEVICE
    THEN [outcome |-> "HatError", msg |-> "Invalid board type."]
    ELSE [outcome |-> "HatError", msg |-> "Board not responding."]

\* construction of a board object: Hat.__init__, then the native open
Construct(address, result) ==
    /\ handle \in {"none", "gone"}
    /\ pc = "idle"
    /\ LET err == AddressError(address)
           res == IF err # "" THEN [outcome |-> "ValueError", msg |-> err]
                  ELSE OpenOutcome(result)
       IN /\ handle' = IF res.outcome = "ok" THEN "live" ELSE "failed"
          \* Hat.__init__ sets the flag once the address is accepted and
          \* the library is loaded, before the native open is called
          /\ initialized' = (err = "")
          /\ dev_open' = IF err = "" /\ result = RESULT_SUCCESS
                         THEN TRUE ELSE dev_open
          /\ last' = [NoResult EXCEPT
                        !.op = "open", !.outcome = res.outcome,
                        !.msg = res.msg, !.address = address,
                        !.was_active = scan_active,
                        !.native_called = (err = ""),
                        !.code = IF err = "" THEN result ELSE 0]
    /\ UNCHANGED <<otherVars, synced, envVars, nativeVars, callVars, values_returned>>

\* variant: the device is closed without the scan cleanup
DisposeCalls_CloseOnly(flag) ==
    IF flag THEN <<"close">> ELSE <<>>

\* __del__: the native calls made when the object is disposed of
DisposeCalls(flag) ==
    IF flag THEN <<"cleanup", "close">> ELSE <<>>

\* the object is disposed of (__del__); the results of its native calls are
\* not looked at
Dispose(fault) ==
    /\ handle \in {"live", "failed"}
    /\ pc = "idle"
    /\ LET calls == DisposeCalls(initialized)
           cleans == \E i \in 1..Len(calls) : calls[i] = "cleanup"
           closes == \E i \in 1..Len(calls) : calls[i] = "close"
       IN /\ IF cleans /\ NativeScanCleanupResult(fault) = RESULT_SUCCESS
             THEN NativeScanRelease /\ clock_live' = TRUE
             ELSE UNCHANGED <<nativeVars, clock_live>>
          /\ dev_open' = IF closes /\ fault = RESULT_SUCCESS
                         THEN FALSE ELSE dev_open
          /\ last' = [NoResult EXCEPT
                        !.op = "del", !.outcome = "ok",
                        !.was_active = scan_active,
                        !.was_running = Running,
                        !.native_called = (calls # <<>>),
                        !.fault = IF calls # <<>> THEN fault ELSE 0,
                        !.calls = calls]
    /\ handle' = IF handle = "live" THEN "gone" ELSE "none"
    /\ initialized' = FALSE
    /\ UNCHANGED <<otherVars, synced, board, callVars, values_returned>>

\* ------------------------------------------- native acquisition thread
ClockPresent == clock_live

\* block sizes the acquisition thread transfers in one step.  A finite scan
\* is followed sample by sample.  A continuous scan is followed sample by
\* sample for its first MaxSamples samples; after that the thread is seen
\* again when it has filled all the free room of the circular buffer, which
\* the model lets happen until more than one buffer has been acquired.
AcquireBlocks ==
    IF ~Continuous THEN {1}
    ELSE (IF samples_acquired < MaxSamples THEN {1} ELSE {})
         \cup (IF samples_in_buffer < buffer_size
                  /\ samples_acquired <= buffer_size
               THEN {buffer_size - samples_in_buffer} ELSE {})

\* the background thread moves n samples per channel into the scan buffer
Acquire(n) ==
    /\ scan_active /\ Running /\ Triggered /\ ClockPresent
    /\ IF Continuous
       THEN /\ samples_in_buffer + n <= buffer_size
            /\ UNCHANGED status
       ELSE /\ samples_acquired + n <= scan_samples
            /\ status' = IF samples_acquired + n = scan_samples
                         THEN status - STATUS_RUNNING
                         ELSE status
    /\ samples_acquired' = samples_acquired + n
    /\ samples_in_buffer' = samples_in_buffer + n
    /\ UNCHANGED <<otherVars, envVars, handleVars, scan_active, channel_count, scan_options,
                   scan_samples, buffer_size, read_index, callVars, last,
                   values_returned>>

\* the thread of a continuous scan finds the circular buffer full: the data
\* it writes replaces samples that were never read
BufferOverrun ==
    /\ scan_active /\ Running /\ Triggered /\ ClockPresent
    /\ Continuous
    /\ samples_in_buffer = buffer_size
    /\ ~HasBit(status, STATUS_BUFFER_OVERRUN)
    /\ status' = status + STATUS_BUFFER_OVERRUN
    /\ UNCHANGED <<otherVars, envVars, handleVars, scan_active, channel_count, scan_options,
                   scan_samples, buffer_size, samples_acquired,
                   samples_in_buffer, read_index, callVars, last,
                   values_returned>>

\* the configured trigger condition is observed
TriggerEvent ==
    /\ scan_active /\ Running /\ ~Triggered
    /\ status' = status + STATUS_TRIGGERED
    /\ UNCHANGED <<otherVars, envVars, handleVars, scan_active, channel_count, scan_options,
                   scan_samples, buffer_size, samples_acquired,
                   samples_in_buffer, read_index, callVars, last, values_returned>>

\* the device FIFO overflowed: data is lost and the acquisition ends
HardwareOverrun ==
    /\ scan_active /\ Running /\ Triggered
    /\ ~HasBit(status, STATUS_HW_OVERRUN)
    /\ status' = status + STATUS_HW_OVERRUN - STATUS_RUNNING
    /\ UNCHANGED <<otherVars, envVars, handleVars, scan_active, channel_count, scan_options,
                   scan_samples, buffer_size, samples_acquired,
                   samples_in_buffer, read_index, callVars, last, values_returned>>

\* ------------------------------------------------------- a_in_scan_read
WAIT == 1

\* the native scan read: result code and samples per channel copied, or WAIT
\* while the request can still be satisfied and the timeout has not elapsed
NativeScanRead(samples_to_read, buffer_size_samples, expired, fault) ==
    IF fault # RESULT_SUCCESS THEN [code |-> fault, n |-> 0]
    ELSE IF ~scan_active THEN [code |-> RESULT_RESOURCE_UNAVAIL, n |-> 0]
    ELSE IF samples_to_read > 0
            /\ buffer_size_samples < samples_to_read * channel_count
         THEN [code |-> RESULT_BAD_PARAMETER, n |-> 0]
    ELSE IF samples_to_read = 0 THEN [code |-> RESULT_SUCCESS, n |-> 0]
    ELSE IF samples_in_buffer >= samples_to_read
         THEN [code |-> RESULT_SUCCESS, n |-> samples_to_read]
    ELSE IF ~Running THEN [code |-> RESULT_SUCCESS, n |-> samples_in_buffer]
    ELSE IF expired THEN [code |-> RESULT_TIMEOUT, n |-> samples_in_buffer]
    ELSE [code |-> WAIT, n |-> 0]

\* variant: the timeout result is not tested and is raised like any other
\* unexpected result
ReadOutcome_TimeoutRaised(result) ==
    IF result = RESULT_BAD_PARAMETER
    THEN [outcome |-> "ValueError", msg |-> "Invalid parameter.",
          timed_out |-> FALSE]
    ELSE IF result = RESULT_RESOURCE_UNAVAIL
    THEN [outcome |-> "HatError", msg |-> "Scan not active.",
          timed_out |-> FALSE]
    ELSE IF result # RESULT_SUCCESS
    THEN [outcome |-> "HatError", msg |-> IncorrectResponse(result),
          timed_out |-> FALSE]
    ELSE [outcome |-> "ok", msg |-> "", timed_out |-> FALSE]

\* mapping of the native scan read result to the Python outcome
ReadOutcome(result) ==
    IF result = RESULT_BAD_PARAMETER
    THEN [outcome |-> "ValueError", msg |-> "Invalid parameter.",
          timed_out |-> FALSE]
    ELSE IF result = RESULT_RESOURCE_UNAVAIL
    THEN [outcome |-> "HatError", msg |-> "Scan not active.",
          timed_out |-> FALSE]
    ELSE IF result = RESULT_TIMEOUT
    THEN [outcome |-> "ok", msg |-> "", timed_out |-> TRUE]
    ELSE IF result # RESULT_SUCCESS
    THEN [outcome |-> "HatError", msg |-> IncorrectResponse(result),
          timed_out |-> FALSE]
    ELSE [outcome |-> "ok", msg |-> "", timed_out |-> FALSE]

\* variant: the per-channel count is taken for the total
TotalRead_PerChannel(samples_read_per_channel, num_channels) ==
    samples_read_per_channel

\* variant: + written for *
TotalRead_Sum(samples_read_per_channel, num_channels) ==
    samples_read_per_channel + num_channels

\* total_read = samples_read_per_channel.value * num_channels
TotalRead(samples_read_per_channel, num_channels) ==
    samples_read_per_channel * num_channels

\* variant: the total over all channels is requested per channel
ReadAllRequest_Total(samples_available, num_channels) ==
    samples_available * num_channels

\* samples_to_read of a read-all request: the samples_available reported by
\* the native status call
ReadAllRequest(samples_available, num_channels) == samples_available

\* variant: the zero branch asks for one sample per channel
SamplesToRead_ZeroReadsOne(samples_per_channel) ==
    IF samples_per_channel = 0 THEN 1 ELSE samples_per_channel

\* samples_to_read of a request that is not read-all: 0 for a status-only
\* read, samples_per_channel for a counted read
SamplesToRead(samples_per_channel) ==
    IF samples_per_channel = 0 THEN 0 ELSE samples_per_channel

\* size of the buffer allocated for the call
ReadBufferSize(samples_to_read, num_channels) ==
    samples_to_read * num_channels

\* variant: the timeout is not handed over, the native read waits
\* indefinitely
ReadTimeout_Indefinite(timeout) == -1

\* timeout handed to the native scan read
ReadTimeout(timeout) == timeout

\* the native layer copies n samples per channel, oldest first, interleaved,
\* to the front of the caller's buffer of size elements
NativeCopy(n, size) == [first |-> read_index * channel_count,
                        filled |-> n * channel_count,
                        size |-> size]

\* variant: the whole buffer is converted, range(buffer_size)
DataList_WholeBuffer(data_buffer, total_read) ==
    [first |-> IF data_buffer.size = 0 THEN 0 ELSE data_buffer.first,
     len |-> data_buffer.size]

\* variant: range(total_read - 1), the last value is left out
DataList_DropLast(data_buffer, total_read) ==
    [first |-> IF total_read <= 1 THEN 0 ELSE data_buffer.first,
     len |-> IF total_read = 0 THEN 0 ELSE total_read - 1]

\* data_list = [data_buffer[i] for i in range(total_read)]
DataList(data_buffer, total_read) ==
    [first |-> IF total_read = 0 THEN 0 ELSE data_buffer.first,
     len |-> total_read]

\* completion of the native read with result r, and the Python epilogue
ReadReturn(c, r, waited) ==
    LET res == ReadOutcome(r.code)
        total == TotalRead(r.n, c.num_channels)
        base == [NoResult EXCEPT
                   !.op = "read",
                   !.samples_per_channel = c.samples_per_channel,
                   !.timeout = c.timeout,
                   !.was_active = scan_active,
                   !.native_called = TRUE,
                   !.fault = IF r.code \in {RESULT_COMMS_FAILURE} THEN r.code
                             ELSE 0,
                   !.status_before = c.status_before,
                   !.waited = waited,
                   !.code = r.code,
                   !.available = samples_in_buffer]
    IN /\ samples_in_buffer' = samples_in_buffer - r.n
       /\ read_index' = read_index + r.n
       /\ status' = IF r.n > 0 /\ HasBit(status, STATUS_BUFFER_OVERRUN)
                    THEN status - STATUS_BUFFER_OVERRUN ELSE status
       /\ IF res.outcome # "ok"
          THEN /\ last' = [base EXCEPT !.outcome = res.outcome,
                                       !.msg = res.msg]
               /\ UNCHANGED values_returned
          ELSE IF total > c.buffer_size
          THEN /\ last' = [base EXCEPT !.outcome = "IndexError",
                                       !.msg = "invalid index"]
               /\ UNCHANGED values_returned
          ELSE /\ last' = [DecodeStatus(base, status) EXCEPT
                             !.outcome = "ok",
                             !.word = status,
                             !.timed_out = res.timed_out,
                             !.data = DataList(NativeCopy(r.n, c.buffer_size),
                                               total)]
               /\ values_returned' = values_returned + total
       /\ pc' = "idle"
       /\ call' = NoCall
       /\ timer_expired' = FALSE
       /\ UNCHANGED <<otherVars, envVars, handleVars, scan_active, channel_count, scan_options,
                      scan_samples, buffer_size, samples_acquired>>

\* the read blocks in the native layer
ReadBlock(c) ==
    /\ pc' = "waiting"
    /\ call' = c
    /\ timer_expired' = FALSE
    /\ last' = NoResult
    /\ UNCHANGED <<otherVars, envVars, handleVars, nativeVars, values_returned>>

\* samples_available of an a_in_scan_status that returned just before a
\* read-all request (-1: there was none)
StatusBefore(samples_per_channel) ==
    IF samples_per_channel < 0 /\ last.op = "status" /\ last.outcome = "ok"
    THEN last.samples_available
    ELSE -1

\* bound on the samples consumed from one scan by counted reads (a finite
\* scan of MaxSamples never holds more; it cuts the drain of a continuous
\* scan's buffer sample by sample)
ReadLimit == MaxSamples

\* entry of a_in_scan_read up to the first return or suspension
a_in_scan_read(samples_per_channel, timeout, fault) ==
    /\ handle = "live" /\ pc = "idle"
    /\ samples_per_channel > 0 => read_index <= ReadLimit
    /\ LET num_channels == channel_count
       IN IF samples_per_channel < 0
          THEN LET result == NativeScanStatusResult(fault)
                   to_read == ReadAllRequest(samples_in_buffer, num_channels)
               IN IF result # RESULT_SUCCESS
                  THEN /\ last' = [NoResult EXCEPT
                                     !.op = "read", !.outcome = "HatError",
                                     !.msg = IncorrectResponse(result),
                                     !.samples_per_channel =
                                         samples_per_channel,
                                     !.timeout = timeout,
                                     !.was_active = scan_active,
                                     !.native_called = TRUE,
                                     !.fault = fault,
                                     !.status_before =
                                         StatusBefore(samples_per_channel)]
                       /\ UNCHANGED <<otherVars, envVars, handleVars, nativeVars, callVars,
                                      values_returned>>
                  ELSE /\ pc' = "read_all"
                       /\ call' = [samples_per_channel |-> samples_per_channel,
                                   timeout |-> timeout,
                                   num_channels |-> num_channels,
                                   samples_to_read |-> to_read,
                                   buffer_size |->
                                     ReadBufferSize(samples_in_buffer,
                                                    num_channels),
                                   status_before |-> StatusBefore(samples_per_channel),
                                   channel_mask |-> 0, rate |-> 0,
                                   options |-> 0]
                       /\ last' = NoResult
                       /\ UNCHANGED <<otherVars, envVars, handleVars, nativeVars, timer_expired,
                                      values_returned>>
          ELSE LET to_read == SamplesToRead(samples_per_channel)
                   c == [samples_per_channel |-> samples_per_channel,
                         timeout |-> timeout,
                         num_channels |-> num_channels,
                         samples_to_read |-> to_read,
                         buffer_size |-> ReadBufferSize(to_read, num_channels),
                         status_before |-> StatusBefore(samples_per_channel),
                         channel_mask |-> 0, rate |-> 0, options |-> 0]
                   r == NativeScanRead(c.samples_to_read, c.buffer_size,
                                       ReadTimeout(c.timeout) = 0, fault)
               IN IF r.code = WAIT THEN ReadBlock(c)
                  ELSE ReadReturn(c, r, FALSE)

\* second half of a read-all request: the native read of the samples counted
a_in_scan_read_all ==
    /\ pc = "read_all"
    /\ LET r == NativeScanRead(call.samples_to_read, call.buffer_size,
                               ReadTimeout(call.timeout) = 0, RESULT_SUCCESS)
       IN IF r.code = WAIT THEN ReadBlock(call)
          ELSE ReadReturn(call, r, FALSE)

\* the native read loop looks at the buffer, the scan and the clock again
ReadPoll ==
    /\ pc = "waiting"
    /\ LET r == NativeScanRead(call.samples_to_read, call.buffer_size,
                               timer_expired, RESULT_SUCCESS)
       IN /\ r.code # WAIT
          /\ ReadReturn(call, r, TRUE)

\* the timeout of the blocked read elapses
TimerExpire ==
    /\ pc = "waiting"
    /\ ReadTimeout(call.timeout) > 0
    /\ ~timer_expired
    /\ timer_expired' = TRUE
    /\ UNCHANGED <<otherVars, envVars, handleVars, nativeVars, pc, call, last, values_returned>>

Next ==
    \/ \E a \in Addresses, r \in OpenResults : Construct(a, r)
    \/ \E f \in CallFaults : Dispose(f)
    \/ \E cs \in ClockSources, f \in CallFaults : a_in_clock_config_write(cs, f)
    \/ SyncComplete
    \/ StartResume
    \/ \E c \in StartCalls : a_in_scan_start(c.m, c.n, c.r, c.o, c.f)
    \/ \E f \in CallFaults : a_in_scan_status(f)
    \/ \E f \in CallFaults : a_in_scan_stop(f)
    \/ \E f \in CallFaults : a_in_scan_cleanup(f)
    \/ \E c \in ReadCalls : a_in_scan_read(c.n, c.t, c.f)
    \/ a_in_scan_read_all
    \/ ReadPoll
    \/ TimerExpire
    \/ \E n \in AcquireBlocks : Acquire(n)
    \/ BufferOverrun
    \/ TriggerEvent
    \/ HardwareOverrun

Spec == Init /\ [][Next]_vars

\* the acquisition thread runs whenever it can, and a blocked native read
\* keeps polling; the caller's own calls and the environment are not forced
Fairness ==
    /\ WF_vars(\E n \in AcquireBlocks : Acquire(n))
    /\ WF_vars(ReadPoll)
    /\ WF_vars(a_in_scan_read_all)
    /\ WF_vars(TimerExpire)
    /\ WF_vars(StartResume)
    /\ WF_vars(BufferOverrun)

LiveSpec == Init /\ [][Next]_vars /\ Fairness

\* ====================================================== buffer sizing
\* starts of finite and continuous scans at rates on both sides of every
\* step of the buffer size table, with requests below and above the table
\* values
SizingRates == {100, 101, 10000, 10001, 50000}
SizingCounts == {0, MaxSamples, 20000}
SizingCalls ==
    [m : {1, 3}, n : SizingCounts, r : SizingRates,
     o : {OPT_DEFAULT, OPT_CONTINUOUS}]

SizingNext ==
    \/ Construct(0, RESULT_SUCCESS)
    \/ \E c \in SizingCalls :
          a_in_scan_start(c.m, c.n, c.r, c.o, RESULT_SUCCESS)
    \/ \E f \in CallFaults : a_in_scan_buffer_size(f)
    \/ a_in_scan_cleanup(RESULT_SUCCESS)

SizingSpec == Init /\ [][SizingNext]_vars

\* ===================================================== status decoding
\* a_in_scan_status and a_in_scan_read on a scan whose native status word
\* takes every combination of the four status bits, alone and together with
\* bits the binding gives no meaning to

\* c_ushort status words: the 16 combinations of the four bits, with no
\* other bit, with bit 4 and with bit 15
StatusWords == {w + h : w \in 0..15, h \in {0, 16, 32768}}

\* the native library puts a word into the status of the active scan
NativeStatusWord(w) ==
    /\ scan_active /\ pc = "idle"
    /\ status' = w
    /\ UNCHANGED <<otherVars, envVars, handleVars, scan_active, channel_count,
                   scan_options, scan_samples, buffer_size, samples_acquired,
                   samples_in_buffer, read_index, callVars, last,
                   values_returned>>

DecodeNext ==
    \/ Construct(0, RESULT_SUCCESS)
    \/ a_in_scan_start(1, MaxSamples, 50000, OPT_DEFAULT, RESULT_SUCCESS)
    \/ \E w \in StatusWords : NativeStatusWord(w)
    \/ a_in_scan_status(RESULT_SUCCESS)
    \/ \E n \in {0, 1} : a_in_scan_read(n, 0, RESULT_SUCCESS)

DecodeSpec == Init /\ [][DecodeNext]_vars

\* Two boards share the clock and trigger lines of the Raspberry Pi header.
\* Every method of a board object hands self._address to the native entry
\* point; the native library keeps its state by address.

\* inputs: every clock source at a rate the generator has to round; the
\* trigger configuration and the scan options of the example
ClockSourceInputs ==
    {SourceType_LOCAL, SourceType_MASTER, SourceType_SLAVE}
ClockRateInputs == {10000}
TriggerConfigInputs ==
    {[source |-> SourceType_MASTER, mode |-> TriggerModes_FALLING_EDGE]}
GroupScanOptions == {OPT_EXTTRIGGER}

\* variant: the assignment of the address is left out, self._address keeps
\* its initial value
ObjectAddress_Zero(address) == 0

\* Hat.__init__: self._address = address, the address every native call of
\* the object is made with
ObjectAddress(address) == address

\* the rate generator divides 51.2 kHz by an integer from 1 to 256; the
\* requested rate is converted to the nearest rate it can generate
ClockDivisor(rate) ==
    Max(1, Min(256, (2 * MAX_SAMPLE_RATE_172 + rate) \div (2 * rate)))

ActualRate(rate) == MAX_SAMPLE_RATE_172 \div ClockDivisor(rate)

Masters == {a \in HatAddresses : hats[a].clock_source = SourceType_MASTER}
Slaves == {a \in HatAddresses : hats[a].clock_source = SourceType_SLAVE}

\* a board has a sample clock: its own, or the one a master puts on the
\* shared line
HasClock(a) ==
    \/ hats[a].clock_source # SourceType_SLAVE
    \/ Masters # {}

\* result code of the native clock configuration write
HatClockConfigWriteResult(address, fault) ==
    IF fault # RESULT_SUCCESS THEN fault
    ELSE IF hats[address].scan_active THEN RESULT_BUSY
    ELSE RESULT_SUCCESS

\* hat.a_in_clock_config_write(clock_source, sample_rate_per_channel): the
\* new configuration starts a synchronization of the ADCs; a slave has no
\* rate of its own, it measures the master clock once it is synchronized
hat_a_in_clock_config_write(a, clock_source, rate, fault) ==
    /\ hats[a].pc = "idle"
    /\ LET address == ObjectAddress(a)
           result == HatClockConfigWriteResult(address, fault)
           res == ClockConfigOutcome(result)
       IN /\ hats' = IF result = RESULT_SUCCESS
                     THEN [hats EXCEPT
                             ![address].clock_source = clock_source,
                             ![address].sample_rate =
                                 IF clock_source = SourceType_SLAVE THEN 0
                                 ELSE ActualRate(rate),
                             ![address].synced = FALSE]
                     ELSE hats
          /\ hlast' = [NoHatResult EXCEPT
                         !.op = "clock_config_write", !.address = a,
                         !.outcome = res.outcome, !.msg = res.msg,
                         !.was_active = hats[address].scan_active,
                         !.fault = fault,
                         !.clock_source = clock_source,
                         !.sample_rate = rate]
    /\ UNCHANGED <<vars, intVars, restVars>>

\* the synchronization of a board completes, 128 cycles of its sample clock
\* after it was started; a slave then knows the rate of the master clock
HatSyncComplete(a) ==
    /\ ~hats[a].synced
    /\ HasClock(a)
    /\ \E m \in (IF hats[a].clock_source = SourceType_SLAVE THEN Masters
                 ELSE {a}) :
          hats' = [hats EXCEPT ![a].synced = TRUE,
                               ![a].sample_rate = hats[m].sample_rate]
    /\ UNCHANGED <<hlast, vars, intVars, restVars>>

\* variant: the flag is read inverted
Synchronized_Inverted(synced_value) == synced_value = 0

\* synchronized=synced.value != 0
Synchronized(synced_value) == synced_value # 0

\* the c_ubyte the native clock configuration read stores for the flag
SyncedValue(flag) == IF flag THEN 1 ELSE 0

ClockReadOutcome(result) ==
    IF result # RESULT_SUCCESS
    THEN [outcome |-> "HatError", msg |-> "Incorrect response."]
    ELSE [outcome |-> "ok", msg |-> ""]

\* hat.a_in_clock_config_read()
hat_a_in_clock_config_read(a, fault) ==
    /\ hats[a].pc = "idle"
    /\ LET address == ObjectAddress(a)
           res == ClockReadOutcome(fault)
           base == [NoHatResult EXCEPT
                      !.op = "clock_config_read", !.address = a,
                      !.outcome = res.outcome, !.msg = res.msg,
                      !.was_active = hats[address].scan_active,
                      !.fault = fault]
       IN hlast' = IF res.outcome = "ok"
                   THEN [base EXCEPT
                           !.clock_source = hats[address].clock_source,
                           !.sample_rate = hats[address].sample_rate,
                           !.synchronized =
                               Synchronized(SyncedValue(hats[address].synced))]
                   ELSE base
    /\ UNCHANGED <<hats, vars, intVars, restVars>>

\* result code of the native trigger configuration
HatTriggerConfigResult(address, fault) ==
    IF fault # RESULT_SUCCESS THEN fault
    ELSE IF hats[address].scan_active THEN RESULT_BUSY
    ELSE RESULT_SUCCESS

\* variant: the busy result is not tested
TriggerConfigOutcome_BusyIgnored(result) ==
    IF result # RESULT_SUCCESS /\ result # RESULT_BUSY
    THEN [outcome |-> "HatError", msg |-> "Incorrect response."]
    ELSE [outcome |-> "ok", msg |-> ""]

TriggerConfigOutcome(result) ==
    IF result = RESULT_BUSY
    THEN [outcome |-> "HatError",
          msg |-> "Cannot write trigger configuration while a scan is active."]
    ELSE IF result # RESULT_SUCCESS
    THEN [outcome |-> "HatError", msg |-> "Incorrect response."]
    ELSE [outcome |-> "ok", msg |-> ""]

\* hat.trigger_config(trigger_source, trigger_mode)
hat_trigger_config(a, trigger_source, trigger_mode, fault) ==
    /\ hats[a].pc = "idle"
    /\ LET address == ObjectAddress(a)
           result == HatTriggerConfigResult(address, fault)
           res == TriggerConfigOutcome(result)
       IN /\ hats' = IF result = RESULT_SUCCESS
                     THEN [hats EXCEPT
                             ![address].trigger_source = trigger_source,
                             ![address].trigger_mode = trigger_mode]
                     ELSE hats
          /\ hlast' = [NoHatResult EXCEPT
                         !.op = "trigger_config", !.address = a,
                         !.outcome = res.outcome, !.msg = res.msg,
                         !.was_active = hats[address].scan_active,
                         !.fault = fault,
                         !.trigger_source = trigger_source,
                         !.trigger_mode = trigger_mode]
    /\ UNCHANGED <<vars, intVars, restVars>>

\* result code of the native scan start of a board of the group
HatScanStartResult(address, fault) ==
    IF fault # RESULT_SUCCESS THEN fault
    ELSE IF hats[address].scan_active THEN RESULT_BUSY
    ELSE RESULT_SUCCESS

\* hat.a_in_scan_start(channel_mask, samples_per_channel, options) with both
\* channels, shown at its return: the call does not return while the ADCs are
\* synchronizing
hat_a_in_scan_start(a, options, fault) ==
    /\ hats[a].pc = "idle"
    /\ LET address == ObjectAddress(a)
           result == HatScanStartResult(address, fault)
           res == StartOutcome(result)
       IN /\ result = RESULT_SUCCESS => hats[address].synced
          /\ hats' = IF result = RESULT_SUCCESS
                     THEN [hats EXCEPT
                             ![address].scan_active = TRUE,
                             ![address].status =
                                 STATUS_RUNNING +
                                 (IF HasBit(StartOptions(options),
                                            OPT_EXTTRIGGER)
                                  THEN 0 ELSE STATUS_TRIGGERED),
                             ![address].samples_acquired = 0,
                             ![address].samples_in_buffer = 0]
                     ELSE hats
          /\ hlast' = [NoHatResult EXCEPT
                         !.op = "start", !.address = a,
                         !.outcome = res.outcome, !.msg = res.msg,
                         !.was_active = hats[address].scan_active,
                         !.fault = fault]
    /\ UNCHANGED <<vars, intVars, restVars>>

\* result code of the native scan cleanup of a board of the group
HatScanCleanupResult(address, fault) ==
    IF fault # RESULT_SUCCESS THEN fault
    ELSE IF ~hats[address].scan_active THEN RESULT_RESOURCE_UNAVAIL
    ELSE RESULT_SUCCESS

\* hat.a_in_scan_cleanup()
hat_a_in_scan_cleanup(a, fault) ==
    /\ hats[a].pc = "idle"
    /\ LET address == ObjectAddress(a)
           result == HatScanCleanupResult(address, fault)
           res == CleanupOutcome(result)
       IN /\ hats' = IF result = RESULT_SUCCESS
                     THEN [hats EXCEPT
                             ![address].scan_active = FALSE,
                             ![address].status = 0,
                             ![address].samples_acquired = 0,
                             ![address].samples_in_buffer = 0]
                     ELSE hats
          /\ hlast' = [NoHatResult EXCEPT
                         !.op = "cleanup", !.address = a,
                         !.outcome = res.outcome, !.msg = res.msg,
                         !.was_active = hats[address].scan_active,
                         !.fault = fault]
    /\ UNCHANGED <<vars, intVars, restVars>>

\* clock and trigger configuration of the group, with scans started and
\* cleaned up in between
GroupNext ==
    \/ \E a \in HatAddresses, cs \in ClockSourceInputs,
          r \in ClockRateInputs, f \in CallFaults :
            hat_a_in_clock_config_write(a, cs, r, f)
    \/ \E a \in HatAddresses : HatSyncComplete(a)
    \/ \E a \in HatAddresses : hat_a_in_clock_config_read(a, RESULT_SUCCESS)
    \/ \E a \in HatAddresses, t \in TriggerConfigInputs, f \in CallFaults :
            hat_trigger_config(a, t.source, t.mode, f)
    \/ \E a \in HatAddresses, o \in GroupScanOptions :
            hat_a_in_scan_start(a, o, RESULT_SUCCESS)
    \/ \E a \in HatAddresses : hat_a_in_scan_cleanup(a, RESULT_SUCCESS)

GroupInit == Init /\ board = "mcc172"

GroupSpec == GroupInit /\ [][GroupNext]_allVars

\* a synchronization in progress completes when the board has a clock
GroupFairness == \A a \in HatAddresses : WF_allVars(HatSyncComplete(a))

GroupLiveSpec == GroupInit /\ [][GroupNext]_allVars /\ GroupFairness

\* ================================== scans on two boards, side by side
\* a_in_scan_status, a_in_scan_read and a_in_scan_stop of the board objects
\* of the group, each with the caller of its own board, and the scan thread
\* the native library runs for each address

\* samples per channel of the finite scans started on the boards
PairScanSamples == MaxSamples
\* a_in_scan_read: samples_per_channel, with timeout 0 (return at once)
\* or -1 (wait)
PairReadCalls == [n : 1..MaxSamples, timeout : {0, -1}]

\* the scan thread of the board at the address moves one sample per channel
\* into its scan buffer; the finite scan ends with the last one
HatAcquire(address) ==
    /\ hats[address].scan_active
    /\ HasBit(hats[address].status, STATUS_RUNNING)
    /\ HasBit(hats[address].status, STATUS_TRIGGERED)
    /\ hats[address].samples_acquired < PairScanSamples
    /\ hats' = [hats EXCEPT
                  ![address].samples_acquired = @ + 1,
                  ![address].samples_in_buffer = @ + 1,
                  ![address].status =
                      IF hats[address].samples_acquired + 1 = PairScanSamples
                      THEN @ - STATUS_RUNNING ELSE @]
    /\ UNCHANGED <<hlast, vars, intVars, restVars>>

\* result code of the native scan status of a board of the group
HatScanStatusResult(address, fault) ==
    IF fault # RESULT_SUCCESS THEN fault
    ELSE IF ~hats[address].scan_active THEN RESULT_RESOURCE_UNAVAIL
    ELSE RESULT_SUCCESS

\* hat.a_in_scan_status()
hat_a_in_scan_status(a, fault) ==
    /\ hats[a].pc = "idle"
    /\ LET address == ObjectAddress(a)
           result == HatScanStatusResult(address, fault)
           res == StatusOutcome(result)
           r == [NoHatResult EXCEPT
                   !.op = "status", !.address = a,
                   !.outcome = res.outcome, !.msg = res.msg,
                   !.was_active = hats[address].scan_active,
                   !.fault = fault]
       IN hlast' = IF result = RESULT_SUCCESS
                   THEN [DecodeStatus(r, hats[address].status) EXCEPT
                           !.samples_available =
                               hats[address].samples_in_buffer]
                   ELSE r
    /\ UNCHANGED <<hats, vars, intVars, restVars>>

\* the native scan read of a board of the group: result code and samples
\* per channel copied, or WAIT while the request can still be satisfied and
\* the timeout has not elapsed
HatScanRead(address, samples_to_read, expired, fault) ==
    IF fault # RESULT_SUCCESS THEN [code |-> fault, n |-> 0]
    ELSE IF ~hats[address].scan_active
         THEN [code |-> RESULT_RESOURCE_UNAVAIL, n |-> 0]
    ELSE IF hats[address].samples_in_buffer >= samples_to_read
         THEN [code |-> RESULT_SUCCESS, n |-> samples_to_read]
    ELSE IF ~HasBit(hats[address].status, STATUS_RUNNING)
         THEN [code |-> RESULT_SUCCESS,
               n |-> hats[address].samples_in_buffer]
    ELSE IF expired
         THEN [code |-> RESULT_TIMEOUT, n |-> hats[address].samples_in_buffer]
    ELSE [code |-> WAIT, n |-> 0]

\* return of hat.a_in_scan_read: the samples copied leave the buffer of the
\* board read from
HatReadReturn(a, address, r) ==
    LET res == ReadOutcome(r.code)
        result == [NoHatResult EXCEPT
                     !.op = "read", !.address = a,
                     !.outcome = res.outcome, !.msg = res.msg,
                     !.was_active = hats[address].scan_active,
                     !.timed_out = res.timed_out,
                     !.data_len = r.n]
    IN /\ hats' = [hats EXCEPT
                     ![address].samples_in_buffer = @ - r.n,
                     ![a].pc = "idle",
                     ![a].samples_to_read = 0]
       /\ hlast' = IF res.outcome = "ok"
                   THEN DecodeStatus(result, hats[address].status)
                   ELSE result

\* hat.a_in_scan_read(samples_per_channel, timeout) with a positive
\* samples_per_channel: returns, or stays in the native read
hat_a_in_scan_read(a, samples_per_channel, timeout, fault) ==
    /\ hats[a].pc = "idle"
    /\ LET address == ObjectAddress(a)
           r == HatScanRead(address, samples_per_channel, timeout = 0, fault)
       IN IF r.code = WAIT
          THEN /\ hats' = [hats EXCEPT
                             ![a].pc = "waiting",
                             ![a].samples_to_read = samples_per_channel]
               /\ UNCHANGED hlast
          ELSE HatReadReturn(a, address, r)
    /\ UNCHANGED <<vars, intVars, restVars>>

\* the native read a caller is waiting in finds its samples, or the scan
\* ended
HatReadPoll(a) ==
    /\ hats[a].pc = "waiting"
    /\ LET address == ObjectAddress(a)
           r == HatScanRead(address, hats[a].samples_to_read, FALSE,
                            RESULT_SUCCESS)
       IN /\ r.code # WAIT
          /\ HatReadReturn(a, address, r)
    /\ UNCHANGED <<vars, intVars, restVars>>

\* hat.a_in_scan_stop()
hat_a_in_scan_stop(a, fault) ==
    /\ hats[a].pc = "idle"
    /\ LET address == ObjectAddress(a)
           result == NativeScanStopResult(fault)
           res == StopOutcome(result)
       IN /\ hats' = IF result = RESULT_SUCCESS
                        /\ hats[address].scan_active
                        /\ HasBit(hats[address].status, STATUS_RUNNING)
                     THEN [hats EXCEPT ![address].status = @ - STATUS_RUNNING]
                     ELSE hats
          /\ hlast' = [NoHatResult EXCEPT
                         !.op = "stop", !.address = a,
                         !.outcome = res.outcome, !.msg = res.msg,
                         !.was_active = hats[address].scan_active,
                         !.fault = fault]
    /\ UNCHANGED <<vars, intVars, restVars>>

\* the scan lifecycle on the boards of the group, each board with its own
\* caller
PairNext ==
    \/ \E a \in HatAddresses :
          hat_a_in_scan_start(a, OPT_DEFAULT, RESULT_SUCCESS)
    \/ \E a \in HatAddresses : HatAcquire(a)
    \/ \E a \in HatAddresses, f \in CallFaults : hat_a_in_scan_status(a, f)
    \/ \E a \in HatAddresses, c \in PairReadCalls :
          hat_a_in_scan_read(a, c.n, c.timeout, RESULT_SUCCESS)
    \/ \E a \in HatAddresses : HatReadPoll(a)
    \/ \E a \in HatAddresses : hat_a_in_scan_stop(a, RESULT_SUCCESS)
    \/ \E a \in HatAddresses : hat_a_in_scan_cleanup(a, RESULT_SUCCESS)

PairSpec == GroupInit /\ [][PairNext]_allVars

\* ================================================== rate quantization
\* mcc172.a_in_scan_actual_rate, a static method: no board is involved.
\* Rates are fractions num/den so that 51200/d is exact.

\* requested rates: 102400/m S/s for m = 1..520, where 51200/rate is every
\* integer and every half from 0.5 to 260, and rates around the ends of the
\* range and between two steps
RequestedRates ==
    {[num |-> 2 * MAX_SAMPLE_RATE_172, den |-> m] : m \in 1..520}
      \cup {[num |-> p, den |-> 1] :
              p \in {1, 199, 200, 201, 10000, 34133, 34134, 51199, 51200,
                     51201, 1000000}}
      \cup {[num |-> p, den |-> 3] : p \in {1, 601, 100000, 153601}}

\* variant: the 0.5 is not added, the quotient is truncated
RateDivisor_Truncated(rate) ==
    LET num == MAX_SAMPLE_RATE_172 * rate.den
        den == rate.num
    IN IF num < den THEN 1
       ELSE IF num > 256 * den THEN 256
       ELSE num \div den

\* divisor = 51200.0 / sample_rate_per_channel + 0.5, limited to 1.0 ..
\* 256.0, then int(divisor)
RateDivisor(rate) ==
    LET num == 2 * MAX_SAMPLE_RATE_172 * rate.den + rate.num
        den == 2 * rate.num
    IN IF num < den THEN 1
       ELSE IF num > 256 * den THEN 256
       ELSE num \div den

\* sample_rate = 51200.0 / int(divisor)
a_in_scan_actual_rate(rate) ==
    [num |-> MAX_SAMPLE_RATE_172, den |-> RateDivisor(rate)]

\* mcc172.a_in_scan_actual_rate(sample_rate_per_channel)
ActualRateCall(rate) ==
    /\ calc' = [op |-> "actual_rate", requested |-> rate,
                divisor |-> RateDivisor(rate),
                actual |-> a_in_scan_actual_rate(rate)]
    /\ UNCHANGED <<dioVars, exVars, vars, groupVars, intVars>>

\* the rate returned is given to a_in_scan_actual_rate again
ActualRateAgain ==
    /\ calc.op = "actual_rate"
    /\ calc.requested # calc.actual
    /\ ActualRateCall(calc.actual)

RateNext ==
    \/ \E rate \in RequestedRates : ActualRateCall(rate)
    \/ ActualRateAgain

RateSpec == Init /\ [][RateNext]_allVars

\* ================================================ MCC 152 digital output
\* mcc152.dio_output_write_port and dio_output_write_dict on an opened
\* board; the output register is kept by the native library

\* a dictionary is followed as the sequence of its items, in the order the
\* loop meets them; its keys are distinct
DictChannels == {-1, 0, 7, 8}
DictValues == {0, 1, 2}
DictItems == [channel : DictChannels, value : DictValues]
ValueDicts ==
    {<<>>} \cup {<<i>> : i \in DictItems}
      \cup {d \in {<<i, j>> : i \in DictItems, j \in DictItems} :
                d[1].channel # d[2].channel}
\* dio_output_write_port: values argument
PortValues == {0, 165, 255, 256}

\* mcc152_dio_output_read_port: result code and register value
NativeDioOutputRead(fault) ==
    IF fault # RESULT_SUCCESS THEN [code |-> fault, value |-> 0]
    ELSE [code |-> RESULT_SUCCESS, value |-> dio_output]

\* mcc152_dio_output_write_port: result code and the register afterwards
NativeDioOutputWrite(values, fault) ==
    IF fault # RESULT_SUCCESS THEN [code |-> fault, register |-> dio_output]
    ELSE [code |-> RESULT_SUCCESS, register |-> values]

\* result test of the dio port calls
DioOutcome(result) ==
    IF result # RESULT_SUCCESS
    THEN [outcome |-> "HatError", msg |-> "Incorrect response."]
    ELSE [outcome |-> "ok", msg |-> ""]

\* mcc152.dio_output_write_port(values)
dio_output_write_port(values, fault) ==
    /\ IF values \notin 0..255
       THEN /\ mlast' = [NoMcc152Result EXCEPT
                           !.op = "dio_output_write_port",
                           !.outcome = "ValueError",
                           !.msg = "Invalid values.", !.values = values]
            /\ UNCHANGED dio_output
       ELSE LET native == NativeDioOutputWrite(values, fault)
                res == DioOutcome(native.code)
            IN /\ dio_output' = native.register
               /\ mlast' = [NoMcc152Result EXCEPT
                              !.op = "dio_output_write_port",
                              !.outcome = res.outcome, !.msg = res.msg,
                              !.values = values, !.writes = 1,
                              !.fault = fault]
    /\ UNCHANGED <<aout, calcVars, exVars, vars, groupVars, intVars>>

\* variant: a value of 0 leaves the bit as it is
ApplyItem_SetOnly(values, channel, value) ==
    LET mask == Pow2(channel)
    IN IF value = 0 THEN values
       ELSE IF HasBit(values, mask) THEN values ELSE values + mask

\* mask = 1 << channel; values & ~mask for 0, values | mask otherwise
ApplyItem(values, channel, value) ==
    LET mask == Pow2(channel)
    IN IF value = 0
       THEN (IF HasBit(values, mask) THEN values - mask ELSE values)
       ELSE (IF HasBit(values, mask) THEN values ELSE values + mask)

\* channels = channels | mask
AddChannel(channels, channel) ==
    IF HasBit(channels, Pow2(channel)) THEN channels
    ELSE channels + Pow2(channel)

\* the loop over value_dict.items(), from item i on
RECURSIVE DictLoop(_, _, _, _)
DictLoop(items, i, values, channels) ==
    IF i > Len(items)
    THEN [err |-> "", values |-> values, channels |-> channels]
    ELSE IF items[i].channel \notin 0..7
    THEN [err |-> "Invalid channel.", values |-> values,
          channels |-> channels]
    ELSE IF items[i].value \notin {0, 1}
    THEN [err |-> "Invalid value, expecting 0 or 1.", values |-> values,
          channels |-> channels]
    ELSE DictLoop(items, i + 1,
                  ApplyItem(values, items[i].channel, items[i].value),
                  AddChannel(channels, items[i].channel))

\* mcc152.dio_output_write_dict(value_dict)
dio_output_write_dict(value_dict, read_fault, write_fault) ==
    LET orig == NativeDioOutputRead(read_fault)
        base == [NoMcc152Result EXCEPT
                   !.op = "dio_output_write_dict",
                   !.value_dict = value_dict, !.before = dio_output,
                   !.fault = IF read_fault # RESULT_SUCCESS THEN read_fault
                             ELSE write_fault]
    IN /\ IF orig.code # RESULT_SUCCESS
          THEN /\ mlast' = [base EXCEPT !.outcome = "HatError",
                                        !.msg = "Incorrect response."]
               /\ UNCHANGED dio_output
          ELSE LET loop == DictLoop(value_dict, 1, orig.value, 0)
               IN IF loop.err # ""
                  THEN /\ mlast' = [base EXCEPT !.outcome = "ValueError",
                                                !.msg = loop.err,
                                                !.fault = 0]
                       /\ UNCHANGED dio_output
                  ELSE IF loop.channels = 0
                  THEN /\ mlast' = [base EXCEPT
                                      !.outcome = "ValueError",
                                      !.msg = "No channels specified.",
                                      !.fault = 0]
                       /\ UNCHANGED dio_output
                  ELSE LET native == NativeDioOutputWrite(loop.values,
                                                          write_fault)
                           res == DioOutcome(native.code)
                       IN /\ dio_output' = native.register
                          /\ mlast' = [base EXCEPT
                                         !.outcome = res.outcome,
                                         !.msg = res.msg,
                                         !.values = loop.values,
                                         !.writes = 1]
       /\ UNCHANGED <<aout, calcVars, exVars, vars, groupVars, intVars>>

\* dio_output_write_dict calls: every dictionary on a board that answers,
\* and one dictionary for a failing read and for a failing write
DictCalls ==
    {c \in [d : ValueDicts, rf : CallFaults, wf : CallFaults] :
        (c.rf # RESULT_SUCCESS \/ c.wf # RESULT_SUCCESS)
          => /\ c.d = <<[channel |-> 0, value |-> 0]>>
             /\ (c.rf = RESULT_SUCCESS \/ c.wf = RESULT_SUCCESS)}

DioNext ==
    \/ \E v \in PortValues, f \in CallFaults : dio_output_write_port(v, f)
    \/ \E c \in DictCalls : dio_output_write_dict(c.d, c.rf, c.wf)

DioSpec == Init /\ [][DioNext]_allVars

\* ============================================== interrupt callback
\* hats.py: HatCallback, interrupt_callback_enable,
\* interrupt_callback_disable, and the interrupt thread of the native
\* library that calls the registered function

\* inputs: callables, an argument that is not callable, user data objects
Functions == {"f1", "f2"}
NotCallable == "not callable"
UserData == {"d1", "d2"}
\* HatCallback objects: the one made inside interrupt_callback_enable for a
\* plain function, referenced only by _HAT_CALLBACK, and one the caller made
\* and keeps
InternalObject == 0
HeldObjects == {1}
CallbackArguments ==
    [kind : {"function"}, function : Functions \cup {NotCallable}, id : {-1}]
      \cup [kind : {"object"}, function : {"none"}, id : HeldObjects]
\* results of the native enable and disable calls
CallbackFaults == {RESULT_SUCCESS, RESULT_UNDEFINED}

\* _load_daqhats_library: the loaded library, or 0 when loading raised
load_daqhats_library(found) == IF found THEN 1 ELSE 0

\* what loading can answer: found or not at the first attempt, the same
\* from then on
LibraryFound ==
    IF libc = "unprobed" THEN BOOLEAN ELSE {libc = "available"}

LibraryAfterLoad(found) == IF found THEN "available" ELSE "missing"

\* HatCallback.__init__(function)
NewHatCallback(function) ==
    [function |-> function, cbfunc |-> FALSE, user_data |-> "None"]

\* the caller constructs a HatCallback and keeps it
HatCallback(id, function) ==
    /\ callbacks[id] = NoCallback
    /\ IF function = NotCallable
       THEN /\ ilast' = [NoIntResult EXCEPT
                           !.op = "HatCallback", !.outcome = "TypeError",
                           !.msg = "Argument 1 must be a function or method."]
            /\ UNCHANGED callbacks
       ELSE /\ callbacks' = [callbacks EXCEPT ![id] = NewHatCallback(function)]
            /\ ilast' = [NoIntResult EXCEPT
                           !.op = "HatCallback", !.outcome = "ok",
                           !.function = function, !.object = id]
    /\ UNCHANGED <<libc, HAT_CALLBACK, native_callback, int_active, invoked>>
    /\ UNCHANGED <<vars, groupVars, restVars>>

\* hat_interrupt_callback_enable of the native library: the result, and the
\* function the interrupt thread will call
NativeCallbackEnable(slot, object, fault) ==
    IF fault # RESULT_SUCCESS
    THEN [code |-> fault, slot |-> slot]
    ELSE [code |-> RESULT_SUCCESS, slot |-> [object |-> object, alive |-> TRUE]]

\* test of the native enable result
EnableOutcome(code) ==
    IF code # 0
    THEN [outcome |-> "Exception",
          msg |-> "Could not enable callback function."]
    ELSE [outcome |-> "ok", msg |-> ""]

\* variant: the user data is not stored in the HatCallback object
StoreUserData_Dropped(object, user_data) ==
    object

\* my_callback.user_data = user_data
StoreUserData(object, user_data) ==
    [object EXCEPT !.user_data = user_data]

\* get_callback_func: a new wrapper is made and kept in the object
GetCallbackFunc(object) ==
    [object EXCEPT !.cbfunc = TRUE]

\* self.cbfunc = ... drops the reference to the wrapper the object made
\* before: when that is the wrapper the library holds, the library is left
\* with a released function
SlotAfterGetCallbackFunc(id) ==
    IF native_callback.object = id /\ id \in HeldObjects
    THEN [native_callback EXCEPT !.alive = FALSE]
    ELSE native_callback

interrupt_callback_enable(callback, user_data, found, fault) ==
    /\ found \in LibraryFound
    /\ callback.kind = "object" => callbacks[callback.id] # NoCallback
    /\ libc' = LibraryAfterLoad(found)
    /\ IF load_daqhats_library(found) = 0
       THEN /\ ilast' = [NoIntResult EXCEPT
                           !.op = "enable", !.outcome = "ok",
                           !.function = callback.function,
                           !.object = callback.id,
                           !.user_data = user_data, !.library = FALSE]
            /\ UNCHANGED <<callbacks, HAT_CALLBACK, native_callback>>
       ELSE IF callback.kind = "function" /\ callback.function = NotCallable
       THEN /\ ilast' = [NoIntResult EXCEPT
                           !.op = "enable", !.outcome = "TypeError",
                           !.msg = "Argument 1 must be a function or method.",
                           !.function = callback.function,
                           !.user_data = user_data, !.library = TRUE]
            /\ UNCHANGED <<callbacks, HAT_CALLBACK, native_callback>>
       ELSE LET id == IF callback.kind = "object" THEN callback.id
                      ELSE InternalObject
                made == IF callback.kind = "object" THEN callbacks[id]
                        ELSE NewHatCallback(callback.function)
                my_callback == GetCallbackFunc(StoreUserData(made, user_data))
                native == NativeCallbackEnable(SlotAfterGetCallbackFunc(id),
                                               id, fault)
                res == EnableOutcome(native.code)
            IN /\ native_callback' = native.slot
               /\ IF res.outcome = "ok"
                  THEN /\ HAT_CALLBACK' = id
                       \* an internal object that is no longer referenced
                       \* is gone
                       /\ callbacks' =
                            [o \in CallbackObjects |->
                               IF o = id THEN my_callback
                               ELSE IF o = InternalObject THEN NoCallback
                               ELSE callbacks[o]]
                  ELSE /\ UNCHANGED HAT_CALLBACK
                       /\ callbacks' =
                            IF id \in HeldObjects
                            THEN [callbacks EXCEPT ![id] = my_callback]
                            ELSE callbacks
               /\ ilast' = [NoIntResult EXCEPT
                              !.op = "enable", !.outcome = res.outcome,
                              !.msg = res.msg,
                              !.function = made.function, !.object = id,
                              !.user_data = user_data, !.library = TRUE,
                              !.fault = fault]
    /\ UNCHANGED <<int_active, invoked>>
    /\ UNCHANGED <<vars, groupVars, restVars>>

\* hat_interrupt_callback_disable of the native library
NativeCallbackDisable(fault) ==
    IF fault # RESULT_SUCCESS
    THEN [code |-> fault, slot |-> native_callback]
    ELSE [code |-> RESULT_SUCCESS, slot |-> NoNativeCallback]

\* test of the native disable result
DisableOutcome(code) ==
    IF code # 0
    THEN [outcome |-> "Exception",
          msg |-> "Could not disable callback function."]
    ELSE [outcome |-> "ok", msg |-> ""]

interrupt_callback_disable(found, fault) ==
    /\ found \in LibraryFound
    /\ libc' = LibraryAfterLoad(found)
    /\ IF load_daqhats_library(found) = 0
       THEN /\ ilast' = [NoIntResult EXCEPT
                           !.op = "disable", !.outcome = "ok",
                           !.library = FALSE]
            /\ UNCHANGED native_callback
       ELSE LET native == NativeCallbackDisable(fault)
                res == DisableOutcome(native.code)
            IN /\ native_callback' = native.slot
               /\ ilast' = [NoIntResult EXCEPT
                              !.op = "disable", !.outcome = res.outcome,
                              !.msg = res.msg, !.library = TRUE,
                              !.fault = fault]
    /\ UNCHANGED <<callbacks, HAT_CALLBACK, int_active, invoked>>
    /\ UNCHANGED <<vars, groupVars, restVars>>

\* HatCallback.handle_callback: self.function(self.user_data)
handle_callback(object) ==
    [function |-> object.function, user_data |-> object.user_data]

\* what the interrupt thread can end up calling through a wrapper that was
\* released: anything
ReleasedWrapperCalls ==
    [function : Functions \cup {"crash"}, user_data : UserData \cup {"None"}]

\* the interrupt signal of a board becomes active: the interrupt thread of
\* the loaded library calls the registered wrapper once
InterruptRaise ==
    /\ libc = "available"
    /\ ~int_active
    /\ int_active' = TRUE
    /\ IF native_callback = NoNativeCallback
       THEN invoked' = NoInvocation
       ELSE IF native_callback.alive
       THEN invoked' = handle_callback(callbacks[native_callback.object])
       ELSE invoked' \in ReleasedWrapperCalls
    /\ UNCHANGED <<libc, callbacks, HAT_CALLBACK, native_callback, ilast>>
    /\ UNCHANGED <<vars, groupVars, restVars>>

\* the interrupt source is cleared: the signal becomes inactive
InterruptClear ==
    /\ int_active
    /\ int_active' = FALSE
    /\ invoked' = NoInvocation
    /\ UNCHANGED <<libc, callbacks, HAT_CALLBACK, native_callback, ilast>>
    /\ UNCHANGED <<vars, groupVars, restVars>>

IntNext ==
    \/ \E id \in HeldObjects, f \in Functions \cup {NotCallable} :
          HatCallback(id, f)
    \/ \E cb \in CallbackArguments, d \in UserData, found \in BOOLEAN,
          f \in CallbackFaults : interrupt_callback_enable(cb, d, found, f)
    \/ \E found \in BOOLEAN, f \in CallbackFaults :
          interrupt_callback_disable(found, f)
    \/ InterruptRaise
    \/ InterruptClear

IntSpec == Init /\ [][IntNext]_allVars

\* =============================================================== claims
IsStart == last.op = "start"
IsRead == last.op = "read"
ReadOk == IsRead /\ last.outcome = "ok"
AlreadyActiveError ==
    last.outcome = "HatError" /\ last.msg = "A scan is already active."

\* the channel mask names at least one channel and only channels of the board
ClaimMaskValid(b, mask) ==
    /\ mask # 0
    /\ \A i \in 0..8 : HasBit(mask, IF i = 8 THEN 256 ELSE Pow2(i))
                          => i < NumBoardChannels(b)

\* channels of the MCC 128 selected by the mask
SelectedChannels(mask) ==
    Cardinality({i \in 0..7 : HasBit(mask, Pow2(i))})

\* the arguments of the last start other than the mask are acceptable
OtherStartArgsValid ==
    /\ last.samples_per_channel > 0
    /\ board = "mcc128" =>
         SelectedChannels(last.channel_mask) * last.rate <= MAX_SAMPLE_RATE_128
    /\ board = "mcc172" => ~HasBit(last.options, OPT_EXTCLOCK)

Finite == scan_active /\ ~Continuous
Completed == Finite /\ samples_acquired = scan_samples
NoOverrun == ~HasBit(status, STATUS_HW_OVERRUN)
             /\ ~HasBit(status, STATUS_BUFFER_OVERRUN)

\* C1: a start on a device with an active scan raises "A scan is already
\* active." whatever its parameters are (healthy device)
C1_AlreadyActiveRegardlessOfParameters ==
    (IsStart /\ last.was_active /\ last.fault = RESULT_SUCCESS)
        => AlreadyActiveError

\* C2: a start returns normally only on a device without an active scan; the
\* scan stays active until a successful cleanup (a_in_scan_cleanup, or the
\* cleanup made when the object is disposed of), which leaves the native
\* state as it was before the first start; a start with valid parameters on a
\* device without an active scan succeeds
C2_CleanupGatesRestart ==
    /\ [](IsStart /\ last.outcome = "ok" => ~last.was_active)
    /\ [](last.op = "cleanup" /\ last.outcome = "ok"
            => NativeIdle /\ clock_live)
    /\ [](IsStart /\ ~last.was_active /\ last.fault = RESULT_SUCCESS
            /\ ClaimMaskValid(board, last.channel_mask) /\ OtherStartArgsValid
            => last.outcome = "ok" /\ scan_active)
    /\ [][scan_active /\ ~scan_active'
            => \/ last'.op = "cleanup" /\ last'.outcome = "ok"
               \/ last'.op = "del"]_vars

\* a start refused on a scan that has stopped but was not cleaned up
C2_Witness ==
    /\ IsStart /\ last.was_active /\ AlreadyActiveError
    /\ scan_active /\ ~Running

\* C3: on an idle, healthy device with the other parameters valid, the start
\* succeeds iff the mask is non-zero and names only existing channels, and
\* otherwise raises ValueError with no scan active
C3_MaskValidation ==
    (IsStart /\ ~last.was_active /\ last.fault = RESULT_SUCCESS
       /\ OtherStartArgsValid)
        => IF ClaimMaskValid(board, last.channel_mask)
           THEN last.outcome = "ok"
           ELSE last.outcome = "ValueError" /\ ~scan_active

\* C4: on the MCC 128 a start whose channels x rate exceeds 100000 raises
\* ValueError before the native scan start is called; a request exactly at
\* the ceiling passes the rate check
C4_RateCeiling ==
    (IsStart /\ board = "mcc128")
        => LET aggregate == SelectedChannels(last.channel_mask) * last.rate
           IN /\ aggregate > MAX_SAMPLE_RATE_128
                    => last.outcome = "ValueError" /\ ~last.native_called
              /\ (aggregate = MAX_SAMPLE_RATE_128 /\ last.channel_mask # 0)
                    => last.native_called

\* a two-channel start at 50000 S/s per channel, exactly at the ceiling
C4_Witness ==
    /\ IsStart /\ board = "mcc128"
    /\ SelectedChannels(last.channel_mask) * last.rate = MAX_SAMPLE_RATE_128
    /\ last.outcome = "ok"

\* C5: a finite scan that is triggered and has a sample clock eventually
\* stops running without a_in_scan_stop; once not running it stays active
\* (status still answers) until a_in_scan_cleanup or the disposal of the
\* object
C5_FiniteScanCompletes ==
    /\ ((scan_active /\ Running /\ Triggered /\ clock_live
          /\ (~Continuous
              \/ (IsStart /\ last.outcome = "ok"
                  /\ ~HasBit(last.options, OPT_CONTINUOUS))))
            ~> ~Running)
    /\ [][scan_active /\ ~Running /\ ~scan_active'
            => last'.op \in {"cleanup", "del"}]_vars
    /\ [](last.op = "status" /\ last.was_active
            /\ last.fault = RESULT_SUCCESS => last.outcome = "ok")

\* a finite scan that acquired all its samples and is still active
C5_Witness ==
    /\ Completed /\ ~Running /\ NoOverrun
    /\ last.op = "status" /\ last.outcome = "ok" /\ ~last.running

\* C6: the reads of a finite scan without overrun never return more than
\* N*k values in total, exactly N*k once the completed scan is read out, and
\* read(N, T) as the first read of the completed scan returns N*k values
\* with timeout and running false
C6_FiniteScanExactness ==
    (Finite /\ NoOverrun)
        => /\ values_returned <= scan_samples * channel_count
           /\ (Completed /\ samples_in_buffer = 0 /\ pc = "idle")
                => values_returned = scan_samples * channel_count
           /\ (ReadOk /\ Completed /\ ~last.running
                 /\ last.samples_per_channel = scan_samples
                 /\ values_returned = last.data.len)
                => /\ last.data.len = scan_samples * channel_count
                   /\ ~last.timed_out

\* read(N, T) returned the whole two-channel finite scan in one piece
C6_Witness ==
    /\ Completed /\ NoOverrun /\ channel_count = 2
    /\ ReadOk /\ last.samples_per_channel = scan_samples
    /\ last.data.len = scan_samples * channel_count
    /\ ~last.timed_out /\ ~last.running

\* C7: the data of a read is a whole number of scans (a multiple of the
\* channel count) and, for a positive request N, at most N x channel count
C7_ReadSize ==
    (ReadOk /\ scan_active)
        => /\ last.data.len % channel_count = 0
           /\ last.samples_per_channel > 0
                => last.data.len <= last.samples_per_channel * channel_count

\* a partial read on a two-channel scan
C7_Witness ==
    /\ ReadOk /\ scan_active /\ channel_count = 2
    /\ last.samples_per_channel = 2 /\ last.data.len = 2

\* C8: a read on an active scan of a healthy device returns normally also
\* when it timed out or the scan has an overrun, with the flags of the native
\* status word; the timeout flag is set iff the native read reported a timeout
C8_ConditionsAreResults ==
    /\ (IsRead /\ last.was_active /\ last.fault = RESULT_SUCCESS)
          => last.outcome = "ok"
    /\ ReadOk
          => /\ last.timed_out <=> (last.code = RESULT_TIMEOUT)
             /\ last.hardware_overrun <=> HasBit(last.word, STATUS_HW_OVERRUN)
             /\ last.buffer_overrun <=>
                    HasBit(last.word, STATUS_BUFFER_OVERRUN)

\* a read that timed out and returned part of the request
C8_Witness ==
    ReadOk /\ last.timed_out /\ last.code = RESULT_TIMEOUT
    /\ last.data.len > 0

\* C9: a read(N, T), N > 0, T >= 0, that finds fewer than N samples per
\* channel while the scan runs returns the samples available at expiry with
\* the timeout flag; T = 0 never blocks and an elapsed timeout ends the wait
C9_PartialRead ==
    /\ [](ReadOk /\ last.timed_out
            => /\ last.samples_per_channel > 0 /\ last.timeout >= 0
               /\ last.available < last.samples_per_channel
               /\ last.data.len = last.available * channel_count)
    /\ [](ReadOk /\ last.samples_per_channel > 0 /\ last.running
            /\ last.available < last.samples_per_channel
            => last.timed_out /\ last.timeout >= 0)
    /\ [](pc = "waiting" => call.timeout # 0)
    /\ ((pc = "waiting" /\ timer_expired) ~> pc = "idle")

\* read(2, T > 0) on a two-channel scan returned one sample per channel
\* when the timeout elapsed
C9_Witness ==
    /\ ReadOk /\ last.timed_out /\ last.waited /\ last.timeout > 0
    /\ channel_count = 2 /\ last.available = 1 /\ last.data.len = 2

\* C10: a read-all request never waits, whatever the timeout, and returns at
\* least the samples_available of the status call made just before it; the
\* acquisition thread never removes samples from the buffer
C10_ReadAll ==
    /\ [](pc = "waiting" => call.samples_per_channel > 0)
    /\ [](IsRead /\ last.samples_per_channel < 0 /\ last.was_active
            /\ last.fault = RESULT_SUCCESS
            => last.outcome = "ok" /\ ~last.waited)
    /\ [](ReadOk /\ last.samples_per_channel < 0 /\ last.status_before >= 0
            => last.data.len >= last.status_before * channel_count)
    /\ [][(last' = last /\ pc' = pc /\ scan_active)
            => samples_in_buffer' >= samples_in_buffer]_vars

\* a read-all with an indefinite timeout on a running two-channel scan that
\* returned more than the status just before it had reported
C10_Witness ==
    /\ ReadOk /\ last.samples_per_channel < 0 /\ last.timeout < 0
    /\ last.status_before >= 0 /\ channel_count = 2 /\ last.running
    /\ last.data.len > last.status_before * channel_count

\* C11: a_in_scan_read(0, T) on an active scan of a healthy device returns at
\* once for every T, returns no data, and leaves the native scan state (the
\* buffered samples, the read position and the status bits) as it was
C11_StatusOnlyRead ==
    /\ [][(pc = "idle" /\ last' # last /\ last'.op = "read"
             /\ last'.samples_per_channel = 0 /\ last'.was_active
             /\ last'.fault = RESULT_SUCCESS)
            => /\ pc' = "idle"
               /\ last'.outcome = "ok" /\ last'.data.len = 0
               /\ ~last'.waited /\ ~last'.timed_out
               /\ nativeVars' = nativeVars]_vars
    /\ [](pc = "waiting" => call.samples_per_channel # 0)

\* read(0, -1) returned with samples in the buffer of a running scan
C11_Witness ==
    /\ ReadOk /\ last.samples_per_channel = 0 /\ last.timeout < 0
    /\ last.running /\ last.available > 0 /\ last.data.len = 0
    /\ samples_in_buffer = last.available

\* C12: a read(N, T), N > 0, that is waiting when the scan stops or completes
\* returns; a read that waited and returns less than N per channel without
\* the timeout flag returns the samples buffered so far with running false
C12_BlockedReadObservesEnd ==
    /\ ((pc = "waiting" /\ ~Running) ~> pc = "idle")
    /\ [](ReadOk /\ last.waited /\ ~last.timed_out
            /\ last.data.len < last.samples_per_channel * channel_count
            => /\ ~last.running
               /\ last.data.len = last.available * channel_count)

\* read(2, -1) was waiting, the scan was stopped, the read returned the one
\* sample per channel that was buffered
C12_Witness ==
    /\ ReadOk /\ last.waited /\ last.timeout < 0 /\ ~last.timed_out
    /\ ~last.running /\ last.samples_per_channel = 2
    /\ last.available = 1 /\ last.data.len = channel_count

\* a call is suspended: the caller waits inside it
Blocked == pc \in {"waiting", "starting"}

\* C13 as stated: only a_in_scan_read with a positive sample count and a
\* non-zero timeout ever suspends its caller
C13_SoleBlockingPoint ==
    Blocked => /\ pc = "waiting"
               /\ call.samples_per_channel > 0 /\ call.timeout # 0

\* C13 amended: the caller is suspended only in a_in_scan_read with a
\* positive sample count and a non-zero timeout, or in a_in_scan_start of the
\* MCC 172 called while the ADCs are synchronizing; status, stop, cleanup and
\* the clock configuration return in the step that calls them; a read with a
\* timeout >= 0 returns, and a suspended start returns once the
\* synchronization has completed
C13_BlockingPoints ==
    /\ [](pc = "waiting"
            => call.samples_per_channel > 0 /\ call.timeout # 0)
    /\ [](pc = "starting" => board = "mcc172" /\ ~scan_active)
    /\ [][(pc = "idle" /\ pc' = "starting") => ~synced]_vars
    /\ [][(last' # last
           /\ last'.op \in {"status", "stop", "cleanup",
                            "clock_config_write", "open", "del"})
            => pc' = pc]_vars
    /\ ((pc = "waiting" /\ call.timeout >= 0) ~> pc = "idle")
    /\ ((pc = "starting" /\ synced) ~> pc = "idle")

\* an a_in_scan_start of the MCC 172 that was suspended during the
\* synchronization and then started the scan
C13_Witness ==
    /\ IsStart /\ last.outcome = "ok" /\ last.waited
    /\ board = "mcc172" /\ scan_active /\ synced

NoActiveScanError ==
    last.outcome = "HatError" /\ last.msg = "Scan not active."

\* C14: on a healthy device a_in_scan_status raises "Scan not active." when
\* no scan is active, and on an active scan (running, stopped or completed)
\* returns the snapshot of the native state at once, changing nothing
C14_StatusOutsideScan ==
    /\ [](last.op = "status" /\ last.fault = RESULT_SUCCESS
            => IF last.was_active THEN last.outcome = "ok"
               ELSE NoActiveScanError)
    /\ [][(last' # last /\ last'.op = "status")
            => /\ pc = "idle" /\ pc' = "idle"
               /\ nativeVars' = nativeVars
               /\ last'.outcome = "ok"
                    => /\ last'.running = Running
                       /\ last'.triggered = Triggered
                       /\ last'.samples_available = samples_in_buffer]_vars

\* status raised "Scan not active." after a scan was read and cleaned up
C14_Witness ==
    /\ last.op = "status" /\ NoActiveScanError
    /\ handle = "live" /\ ~scan_active /\ values_returned > 0

\* C15: with no scan active on a healthy device a_in_scan_read raises
\* "Scan not active." for every samples_per_channel and timeout, and returns
\* no data
C15_ReadOutsideScan ==
    (IsRead /\ ~last.was_active /\ last.fault = RESULT_SUCCESS)
        => NoActiveScanError /\ last.data.len = 0

\* C16: a_in_scan_stop on a healthy device raises no error, also on a scan
\* that has stopped or completed; after a stop the scan is active and not
\* running; a second stop right after a stop changes nothing
C16_StopIdempotent ==
    /\ [](last.op = "stop" /\ last.fault = RESULT_SUCCESS
            => /\ last.outcome = "ok"
               /\ last.was_active => scan_active /\ ~Running)
    /\ [][(last.op = "stop" /\ last.outcome = "ok" /\ last.was_active
           /\ last'.op = "stop" /\ last'.fault = RESULT_SUCCESS)
            => /\ last'.outcome = "ok"
               /\ nativeVars' = nativeVars]_vars

\* a stop on a scan that an earlier stop had halted with samples buffered
C16_Witness ==
    /\ last.op = "stop" /\ last.outcome = "ok" /\ last.was_active
    /\ ~last.was_running /\ scan_active /\ samples_in_buffer > 0
    /\ NoOverrun /\ samples_acquired < scan_samples

\* C17: a successful stop ends the acquisition and keeps the buffer: no
\* sample is added or removed by the stop or after it; a read of a scan that
\* is not running returns the buffered samples, up to the number asked for;
\* after the cleanup a read returns no data
C17_StopPreservesData ==
    /\ [][(last'.op = "stop" /\ last'.outcome = "ok" /\ last'.was_active)
            => /\ ~Running'
               /\ samples_in_buffer' = samples_in_buffer
               /\ samples_acquired' = samples_acquired
               /\ read_index' = read_index]_vars
    /\ [](ReadOk /\ ~last.running /\ last.samples_per_channel > 0
            => last.data.len =
                 Min(last.available, last.samples_per_channel) * channel_count)
    /\ [](IsRead /\ ~last.was_active
            => last.outcome # "ok" /\ last.data.len = 0)

\* a read returned the one sample per channel that a finite scan had
\* buffered when it was stopped early
C17_Witness ==
    /\ ReadOk /\ ~last.running /\ last.data.len = channel_count
    /\ Finite /\ NoOverrun /\ samples_acquired = 1 /\ samples_in_buffer = 0

\* C18: a_in_scan_cleanup with no scan active on a healthy device raises
\* "Scan not active." and changes nothing
C18_CleanupNothingActive ==
    (last.op = "cleanup" /\ ~last.was_active /\ last.fault = RESULT_SUCCESS)
        => NoActiveScanError /\ NativeIdle

C20_OpenOutcome ==
    last.op = "open"
        => IF last.address \notin 0..7
           THEN /\ last.outcome = "ValueError" /\ ~last.native_called
                /\ handle = "failed" /\ ~initialized
           ELSE /\ last.native_called
                /\ (last.outcome = "ok") <=> (last.code = RESULT_SUCCESS)
                /\ (last.outcome = "ok") <=> (handle = "live")
                /\ (last.outcome = "HatError"
                      /\ last.msg = "Invalid board type.")
                     <=> (last.code = RESULT_INVALID_DEVICE)
                /\ (last.outcome = "HatError"
                      /\ last.msg = "Board not responding.")
                     <=> (last.code \notin {RESULT_SUCCESS,
                                            RESULT_INVALID_DEVICE})

\* the constructor raised "Board not responding." at address 7
C20_Witness ==
    /\ last.op = "open" /\ last.address = 7
    /\ last.code = RESULT_COMMS_FAILURE
    /\ last.outcome = "HatError" /\ last.msg = "Board not responding."
    /\ handle = "failed"

IsReconfiguration == hlast.op \in {"clock_config_write", "trigger_config"}

BusyError ==
    /\ hlast.outcome = "HatError"
    /\ hlast.msg =
         IF hlast.op = "clock_config_write"
         THEN "Cannot change the clock configuration while a scan is active."
         ELSE "Cannot write trigger configuration while a scan is active."

\* C21: on a healthy MCC 172 with an active scan a_in_clock_config_write and
\* trigger_config raise the HatError that names the active scan; a call that
\* raises changes nothing on any board (clock source, rate, trigger
\* configuration, scan); without an active scan the calls succeed and the
\* board has the configuration written
C21_ReconfigurationRefused ==
    /\ [](IsReconfiguration /\ hlast.was_active
            /\ hlast.fault = RESULT_SUCCESS => BusyError)
    /\ [][(hlast' # hlast /\ hlast'.outcome # "ok"
           /\ hlast'.op \in {"clock_config_write", "trigger_config"})
            => hats' = hats]_allVars
    /\ [](IsReconfiguration /\ ~hlast.was_active
            /\ hlast.fault = RESULT_SUCCESS => hlast.outcome = "ok")
    /\ [][(hlast' # hlast /\ hlast'.outcome = "ok"
           /\ hlast'.op = "clock_config_write")
            => /\ hats'[hlast'.address].clock_source = hlast'.clock_source
               /\ ~hats'[hlast'.address].scan_active]_allVars
    /\ [][(hlast' # hlast /\ hlast'.outcome = "ok"
           /\ hlast'.op = "trigger_config")
            => /\ hats'[hlast'.address].trigger_source
                    = hlast'.trigger_source
               /\ hats'[hlast'.address].trigger_mode = hlast'.trigger_mode
               /\ ~hats'[hlast'.address].scan_active]_allVars

\* trigger_config was refused on board 1 while its scan was running: the
\* board still has the trigger configuration it had after the open
C21_Witness ==
    /\ hlast.op = "trigger_config" /\ hlast.address = 1 /\ BusyError
    /\ hats[1].scan_active /\ HasBit(hats[1].status, STATUS_RUNNING)
    /\ hats[1].trigger_source = SourceType_LOCAL
    /\ hats[1].clock_source = SourceType_SLAVE
    /\ hats[0].clock_source = SourceType_MASTER

\* board m is the only clock master and every other board is a clock slave
GroupConfigured(m) ==
    /\ Masters = {m}
    /\ Slaves = HatAddresses \ {m}

\* the clock of master m has just been written, the slaves having been
\* configured before
MasterWritten(m) ==
    /\ hlast.op = "clock_config_write" /\ hlast.outcome = "ok"
    /\ hlast.address = m /\ hlast.clock_source = SourceType_MASTER
    /\ GroupConfigured(m)

\* the clock of another board than m was written again
SlaveRewritten(m) ==
    /\ hlast.op = "clock_config_write" /\ hlast.outcome = "ok"
    /\ hlast.address # m

AllSynced == \A a \in HatAddresses : hats[a].synced

\* C22: once the clock of the single master is written with every other
\* board of the group configured as slave, all boards become synchronized
\* (unless a clock is written again); a board loses the flag only by a write
\* of its own clock, and a_in_clock_config_read returns the flag and the
\* clock source of the board, so polling the master ends
C22_SyncLiveness ==
    /\ \A m \in HatAddresses :
          MasterWritten(m)
              ~> (AllSynced \/ SlaveRewritten(m) \/ ~GroupConfigured(m))
    /\ [][\A a \in HatAddresses :
            (hats[a].synced /\ ~hats'[a].synced)
              => /\ hlast'.op = "clock_config_write"
                 /\ hlast'.outcome = "ok" /\ hlast'.address = a]_allVars
    /\ [][(hlast' # hlast /\ hlast'.op = "clock_config_read"
           /\ hlast'.fault = RESULT_SUCCESS)
            => /\ hlast'.outcome = "ok"
               /\ hlast'.synchronized = hats[hlast'.address].synced
               /\ hlast'.clock_source = hats[hlast'.address].clock_source
               /\ hats' = hats]_allVars

\* a_in_clock_config_read on master 0 reported synchronized with slave 1
\* synchronized as well, the slave having measured the rate of the master
C22_Witness ==
    /\ hlast.op = "clock_config_read" /\ hlast.address = 0
    /\ hlast.synchronized /\ hlast.clock_source = SourceType_MASTER
    /\ GroupConfigured(0) /\ AllSynced
    /\ hats[1].sample_rate = hats[0].sample_rate
    /\ hats[0].sample_rate = 10240

\* C23 as stated: at most one board of the group is clock master, whatever
\* clock configurations are written
C23_SingleMaster == Cardinality(Masters) <= 1

\* C23 amended: the clock role of a board changes only by a successful
\* a_in_clock_config_write on that board, which gives it the role written; a
\* write of MASTER is not refused because another board is master, so a
\* second master appears exactly when MASTER is written to a board while
\* another board is master: keeping a single master is left to the callers
C23_MasterByCallerDiscipline ==
    /\ [][\A a \in HatAddresses :
            hats'[a].clock_source # hats[a].clock_source
              => /\ hlast'.op = "clock_config_write"
                 /\ hlast'.outcome = "ok" /\ hlast'.address = a
                 /\ hats'[a].clock_source = hlast'.clock_source]_allVars
    /\ [][(Cardinality(Masters) <= 1 /\ Cardinality(Masters') > 1)
            => /\ hlast'.op = "clock_config_write"
               /\ hlast'.clock_source = SourceType_MASTER
               /\ Masters # {} /\ hlast'.address \notin Masters]_allVars
    /\ [](hlast.op = "clock_config_write" /\ hlast.fault = RESULT_SUCCESS
            /\ ~hlast.was_active => hlast.outcome = "ok")

\* MASTER was written to board 1 while board 0 was master: two masters
C23_Witness ==
    /\ hlast.op = "clock_config_write" /\ hlast.outcome = "ok"
    /\ hlast.address = 1 /\ hlast.clock_source = SourceType_MASTER
    /\ Masters = {0, 1}

\* C24: a scan started with EXTTRIGGER is not triggered when the start
\* returns (one started without it is); while an active scan is not triggered
\* no sample is acquired or buffered, a_in_scan_status shows triggered false
\* with samples_available 0 and a read returns no data; the triggered bit is
\* set by the trigger input alone, not by a call, and once set it stays set
\* as long as the scan is active
C24_TriggerHoldOff ==
    /\ [][(last' # last /\ last'.op = "start" /\ last'.outcome = "ok")
            => (Triggered' <=> ~HasBit(last'.options, OPT_EXTTRIGGER))]_vars
    /\ [](scan_active /\ ~Triggered
            => samples_in_buffer = 0 /\ samples_acquired = 0)
    /\ [][(last' # last /\ last'.op \in {"status", "read"}
           /\ last'.outcome = "ok")
            => /\ last'.triggered = Triggered
               /\ ~last'.triggered
                    => /\ last'.samples_available = 0
                       /\ last'.data.len = 0]_vars
    /\ [][(scan_active /\ scan_active' /\ Triggered) => Triggered']_vars
    /\ [][(scan_active /\ ~Triggered /\ Triggered')
            => /\ HasBit(scan_options, OPT_EXTTRIGGER) /\ Running
               /\ last' = last /\ pc' = pc
               /\ samples_in_buffer' = 0]_vars

\* a read returned data of a scan that was started with EXTTRIGGER, after
\* the trigger
C24_Witness ==
    /\ ReadOk /\ last.triggered /\ last.data.len > 0
    /\ scan_active /\ HasBit(scan_options, OPT_EXTTRIGGER) /\ Triggered

\* the buffer size table of the MCC 128 (samples per channel)
TierMinimum128(rate) ==
    IF rate <= 100 THEN 1000
    ELSE IF rate <= 10000 THEN 10000
    ELSE 100000

Overrun == HasBit(status, STATUS_BUFFER_OVERRUN)

\* C26: a continuous scan that runs with trigger and clock and is never read
\* gets the buffer overrun bit; the bit is set only by the scan thread
\* finding the buffer full, so never while the buffer is kept below its
\* capacity; once set it stays, with the buffer full, until a read returns
\* data or the scan is released; a_in_scan_status shows the bit as it is
C26_BufferOverrunReporting ==
    /\ ((scan_active /\ Continuous /\ Running /\ Triggered /\ clock_live
           /\ IsStart /\ last.outcome = "ok")
          ~> (Overrun \/ ~Running \/ ~scan_active \/ ~clock_live
                \/ values_returned > 0))
    /\ [][(~Overrun /\ Overrun')
            => /\ Continuous /\ samples_in_buffer = buffer_size
               /\ samples_in_buffer' = samples_in_buffer
               /\ last' = last]_vars
    /\ [](Overrun => scan_active /\ samples_in_buffer = buffer_size)
    /\ [][(Overrun /\ ~Overrun')
            => \/ ~scan_active'
               \/ /\ last'.op = "read" /\ last'.outcome = "ok"
                  /\ last'.data.len > 0
                  /\ samples_in_buffer' < buffer_size]_vars
    /\ [][(last' # last /\ last'.op = "status" /\ last'.outcome = "ok")
            => last'.buffer_overrun = Overrun]_vars

\* a_in_scan_status showed a buffer overrun of a continuous scan that had
\* been read before: the buffer was left to fill again
C26_Witness ==
    /\ last.op = "status" /\ last.outcome = "ok" /\ last.buffer_overrun
    /\ Continuous /\ Running /\ values_returned > 0
    /\ samples_in_buffer = buffer_size

\* the operations of the scan lifecycle and the clock configuration
DeviceOps == {"start", "status", "read", "stop", "cleanup",
              "clock_config_write"}

\* C27: when the native call of a scan lifecycle or clock operation answers
\* with the communications failure code, the operation raises a HatError
\* whose message carries that code
C27_DeviceFaultMapping ==
    (last.op \in DeviceOps /\ last.native_called
       /\ last.fault = RESULT_COMMS_FAILURE)
        => /\ last.outcome = "HatError"
           /\ last.msg = IncorrectResponse(RESULT_COMMS_FAILURE)

\* C28: when interrupt_callback_enable returns normally the library holds
\* the wrapper of the given function with the given user data, and when
\* interrupt_callback_disable returns normally no callback is registered,
\* whether or not the native library could be loaded
C28_NoSilentFailure ==
    /\ (ilast.op = "enable" /\ ilast.outcome = "ok")
         => /\ native_callback # NoNativeCallback /\ native_callback.alive
            /\ handle_callback(callbacks[native_callback.object])
                 = [function |-> ilast.function,
                    user_data |-> ilast.user_data]
    /\ (ilast.op = "disable" /\ ilast.outcome = "ok")
         => native_callback = NoNativeCallback

EnableSucceeded ==
    ilast.op = "enable" /\ ilast.outcome = "ok" /\ ilast.library

\* C29: the library holds one wrapper at a time, the one of the object kept
\* in _HAT_CALLBACK; when the last interrupt call made was an
\* interrupt_callback_enable(f, d) that succeeded, an interrupt calls f(d)
\* and nothing else, whatever was registered before
C29_SingleCallbackSlot ==
    /\ [](native_callback # NoNativeCallback /\ native_callback.alive
            => HAT_CALLBACK = native_callback.object)
    /\ [](EnableSucceeded
            => /\ native_callback = [object |-> ilast.object, alive |-> TRUE]
               /\ callbacks[ilast.object].function = ilast.function)
    /\ [][(EnableSucceeded /\ ~int_active /\ int_active')
            => invoked' = [function |-> ilast.function,
                           user_data |-> ilast.user_data]]_allVars

\* an interrupt called f2 with d2, registered as a plain function after the
\* kept HatCallback object of f1 had been given to
\* interrupt_callback_enable with d1
C29_Witness ==
    /\ EnableSucceeded /\ int_active
    /\ invoked = [function |-> "f2", user_data |-> "d2"]
    /\ HAT_CALLBACK = InternalObject
    /\ callbacks[1] = [function |-> "f1", cbfunc |-> TRUE, user_data |-> "d1"]

\* C30: a scan operation made through the object of one board, a read that
\* starts or ends waiting included, changes nothing of the board at any
\* other address: scan state, samples acquired and buffered, status bits,
\* the position of its caller; no step changes two boards; while the caller
\* of one board waits in a read, every scan operation of another board can
\* be made, and a read the other board's caller waits in returns once its
\* samples are there
C30_PerDeviceIndependence ==
    /\ [][\A b \in HatAddresses :
            (hlast' # hlast /\ hlast'.address # b) => hats'[b] = hats[b]]_allVars
    /\ [][\A a, b \in HatAddresses :
            a # b => (hats'[a] = hats[a] \/ hats'[b] = hats[b])]_allVars
    /\ [](\A a, b \in HatAddresses :
            (a # b /\ hats[a].pc = "waiting" /\ hats[b].pc = "idle")
              => /\ ENABLED hat_a_in_scan_start(b, OPT_DEFAULT, RESULT_SUCCESS)
                 /\ ENABLED hat_a_in_scan_status(b, RESULT_SUCCESS)
                 /\ ENABLED hat_a_in_scan_read(b, 1, 0, RESULT_SUCCESS)
                 /\ ENABLED hat_a_in_scan_stop(b, RESULT_SUCCESS)
                 /\ ENABLED hat_a_in_scan_cleanup(b, RESULT_SUCCESS))
    /\ [](\A a, b \in HatAddresses :
            (a # b /\ hats[a].pc = "waiting" /\ hats[b].pc = "waiting"
               /\ hats[b].samples_in_buffer >= hats[b].samples_to_read)
              => ENABLED HatReadPoll(b))

\* the caller of board 0 waits in a read for more samples than its buffer
\* holds, and a read of board 1 made meanwhile returned data
C30_Witness ==
    /\ hats[0].pc = "waiting" /\ hats[0].scan_active
    /\ hats[0].samples_in_buffer = 1 /\ hats[0].samples_to_read = 2
    /\ hlast.op = "read" /\ hlast.address = 1 /\ hlast.outcome = "ok"
    /\ hlast.data_len > 0 /\ hats[1].pc = "idle"

\* C31: the flags a_in_scan_status and a_in_scan_read return are the bits
\* 0x0001 (hardware_overrun), 0x0002 (buffer_overrun), 0x0004 (triggered)
\* and 0x0008 (running) of the status word the native call reported, each
\* flag from its own bit and from nothing else
C31_StatusDecoding ==
    /\ []((last.op \in {"status", "read"} /\ last.outcome = "ok")
            => /\ last.hardware_overrun = (last.word % 2 = 1)
               /\ last.buffer_overrun = ((last.word \div 2) % 2 = 1)
               /\ last.triggered = ((last.word \div 4) % 2 = 1)
               /\ last.running = ((last.word \div 8) % 2 = 1))
    /\ [][(last' # last /\ last'.op \in {"status", "read"}
             /\ last'.outcome = "ok")
            => last'.word = status]_vars

\* a_in_scan_read decoded a word with the hardware overrun and triggered
\* bits and bit 15: two flags true, running and buffer_overrun false
C31_Witness ==
    /\ last.op = "read" /\ last.outcome = "ok" /\ last.word = 32768 + 5
    /\ last.hardware_overrun /\ last.triggered
    /\ ~last.running /\ ~last.buffer_overrun

RECURSIVE DictValue(_, _, _)
DictValue(items, i, channel) ==
    IF i > Len(items) THEN -1
    ELSE IF items[i].channel = channel THEN items[i].value
    ELSE DictValue(items, i + 1, channel)

DictAccepted(items) ==
    /\ Len(items) > 0
    /\ \A i \in 1..Len(items) :
          items[i].channel \in 0..7 /\ items[i].value \in {0, 1}

\* C33: on a board that answers, dio_output_write_dict with a dictionary of
\* channels 0-7 and values 0/1 that is not empty returns normally, and
\* afterwards the output register bit of every channel named is the value
\* given and every other bit is as before; with any other dictionary it
\* raises ValueError, makes no output write and leaves the register as it
\* was
C33_DictWriteNamedChannels ==
    [][(mlast' # mlast /\ mlast'.op = "dio_output_write_dict"
          /\ mlast'.fault = RESULT_SUCCESS)
         => IF DictAccepted(mlast'.value_dict)
            THEN /\ mlast'.outcome = "ok"
                 /\ \A c \in 0..7 :
                      LET named == DictValue(mlast'.value_dict, 1, c)
                          after == (dio_output' \div 2^c) % 2
                          before == (dio_output \div 2^c) % 2
                      IN after = IF named >= 0 THEN named ELSE before
            ELSE /\ mlast'.outcome = "ValueError"
                 /\ mlast'.writes = 0
                 /\ dio_output' = dio_output]_allVars

\* {0: 0, 7: 1} written on a register of 165 (bits 0, 2, 5, 7): bit 0 went
\* to 0, bit 7 stayed 1, bits 2 and 5 are as before
C33_Witness ==
    /\ mlast.op = "dio_output_write_dict" /\ mlast.outcome = "ok"
    /\ mlast.value_dict = <<[channel |-> 0, value |-> 0],
                            [channel |-> 7, value |-> 1]>>
    /\ mlast.before = 165 /\ dio_output = 164

\* C34: the _initialized flag of an object whose construction failed is
\* false, and disposing of such an object makes no native call
C34_InitializedTracksOpen ==
    /\ [](handle = "failed" => ~initialized)
    /\ [][(handle = "failed" /\ last'.op = "del")
            => (last'.calls = <<>> /\ ~last'.native_called)]_vars

\* ------------------------------------------------- a_in_scan_read_numpy
\* data_buffer = None of the status-only request, and the data field it
\* becomes
NoneBuffer == [first |-> 0, filled |-> 0, size |-> 0, none |-> TRUE]

NoneData == [first |-> 0, len |-> 0, none |-> TRUE]

\* the buffer of a_in_scan_read_numpy: None for samples_per_channel = 0,
\* otherwise numpy.empty(buffer_size) filled by the native read
NumpyBuffer(samples_per_channel, filled) ==
    IF samples_per_channel = 0 THEN NoneBuffer ELSE filled

\* what passing None for the ndpointer argument of the native read does:
\* the argument conversion of the numpy package refuses it, or it is handed
\* over as a null pointer
NoneArguments == {"refused", "passed"}

\* data of the numpy form: the buffer, cut to its first total_read values
\* by numpy.resize when fewer values were read than it holds; the None of a
\* status-only request stays None (0 < 0 is false)
NumpyData(data_buffer, total_read) ==
    IF "none" \in DOMAIN data_buffer THEN NoneData
    ELSE IF total_read < data_buffer.size
    THEN [first |-> IF total_read = 0 THEN 0 ELSE data_buffer.first,
          len |-> total_read]
    ELSE [first |-> IF data_buffer.size = 0 THEN 0 ELSE data_buffer.first,
          len |-> data_buffer.size]

\* completion of the native read with result r, and the epilogue of
\* a_in_scan_read_numpy
NumpyReadReturn(c, r, waited) ==
    LET res == ReadOutcome(r.code)
        total == TotalRead(r.n, c.num_channels)
        data == NumpyData(NumpyBuffer(c.samples_per_channel,
                                      NativeCopy(r.n, c.buffer_size)),
                          total)
        base == [NoResult EXCEPT
                   !.op = "read_numpy",
                   !.samples_per_channel = c.samples_per_channel,
                   !.timeout = c.timeout,
                   !.was_active = scan_active,
                   !.native_called = TRUE,
                   !.fault = IF r.code \in {RESULT_COMMS_FAILURE} THEN r.code
                             ELSE 0,
                   !.status_before = c.status_before,
                   !.waited = waited,
                   !.code = r.code,
                   !.available = samples_in_buffer]
    IN /\ samples_in_buffer' = samples_in_buffer - r.n
       /\ read_index' = read_index + r.n
       /\ status' = IF r.n > 0 /\ HasBit(status, STATUS_BUFFER_OVERRUN)
                    THEN status - STATUS_BUFFER_OVERRUN ELSE status
       /\ IF res.outcome # "ok"
          THEN /\ last' = [base EXCEPT !.outcome = res.outcome,
                                       !.msg = res.msg]
               /\ UNCHANGED values_returned
          ELSE /\ last' = [DecodeStatus(base, status) EXCEPT
                             !.outcome = "ok",
                             !.word = status,
                             !.timed_out = res.timed_out,
                             !.data = data]
               /\ values_returned' = values_returned + data.len
       /\ pc' = "idle"
       /\ call' = NoCall
       /\ timer_expired' = FALSE
       /\ UNCHANGED <<otherVars, envVars, handleVars, scan_active, channel_count, scan_options,
                      scan_samples, buffer_size, samples_acquired>>

\* entry of a_in_scan_read_numpy up to the first return or suspension
a_in_scan_read_numpy(samples_per_channel, timeout, fault, none_arg) ==
    /\ handle = "live" /\ pc = "idle"
    /\ samples_per_channel > 0 => read_index <= ReadLimit
    /\ LET num_channels == channel_count
       IN IF samples_per_channel = 0 /\ none_arg = "refused"
          THEN /\ last' = [NoResult EXCEPT
                             !.op = "read_numpy",
                             !.outcome = "ArgumentError",
                             !.msg = "argument must be an ndarray",
                             !.samples_per_channel = samples_per_channel,
                             !.timeout = timeout,
                             !.was_active = scan_active,
                             !.status_before =
                                 StatusBefore(samples_per_channel)]
               /\ UNCHANGED <<otherVars, envVars, handleVars, nativeVars, callVars,
                              values_returned>>
          ELSE IF samples_per_channel < 0
          THEN LET result == NativeScanStatusResult(fault)
                   to_read == ReadAllRequest(samples_in_buffer, num_channels)
               IN IF result # RESULT_SUCCESS
                  THEN /\ last' = [NoResult EXCEPT
                                     !.op = "read_numpy",
                                     !.outcome = "HatError",
                                     !.msg = IncorrectResponse(result),
                                     !.samples_per_channel =
                                         samples_per_channel,
                                     !.timeout = timeout,
                                     !.was_active = scan_active,
                                     !.native_called = TRUE,
                                     !.fault = fault,
                                     !.status_before =
                                         StatusBefore(samples_per_channel)]
                       /\ UNCHANGED <<otherVars, envVars, handleVars, nativeVars, callVars,
                                      values_returned>>
                  ELSE /\ pc' = "read_all"
                       /\ call' = [samples_per_channel |-> samples_per_channel,
                                   timeout |-> timeout,
                                   num_channels |-> num_channels,
                                   samples_to_read |-> to_read,
                                   buffer_size |->
                                     ReadBufferSize(samples_in_buffer,
                                                    num_channels),
                                   status_before |-> StatusBefore(samples_per_channel),
                                   channel_mask |-> 0, rate |-> 0,
                                   options |-> 0]
                       /\ last' = NoResult
                       /\ UNCHANGED <<otherVars, envVars, handleVars, nativeVars, timer_expired,
                                      values_returned>>
          ELSE LET to_read == SamplesToRead(samples_per_channel)
                   c == [samples_per_channel |-> samples_per_channel,
                         timeout |-> timeout,
                         num_channels |-> num_channels,
                         samples_to_read |-> to_read,
                         buffer_size |-> ReadBufferSize(to_read, num_channels),
                         status_before |-> StatusBefore(samples_per_channel),
                         channel_mask |-> 0, rate |-> 0, options |-> 0]
                   r == NativeScanRead(c.samples_to_read, c.buffer_size,
                                       ReadTimeout(c.timeout) = 0, fault)
               IN IF r.code = WAIT THEN ReadBlock(c)
                  ELSE NumpyReadReturn(c, r, FALSE)

\* second half of a read-all request of a_in_scan_read_numpy
a_in_scan_read_numpy_all ==
    /\ pc = "read_all"
    /\ LET r == NativeScanRead(call.samples_to_read, call.buffer_size,
                               ReadTimeout(call.timeout) = 0, RESULT_SUCCESS)
       IN IF r.code = WAIT THEN ReadBlock(call)
          ELSE NumpyReadReturn(call, r, FALSE)

\* the native read loop of a blocked a_in_scan_read_numpy looks at the
\* buffer, the scan and the clock again
NumpyReadPoll ==
    /\ pc = "waiting"
    /\ LET r == NativeScanRead(call.samples_to_read, call.buffer_size,
                               timer_expired, RESULT_SUCCESS)
       IN /\ r.code # WAIT
          /\ NumpyReadReturn(call, r, TRUE)

\* scans of one or two channels read with a_in_scan_read_numpy only: a
\* suspended call is then always one of the numpy form
NumpyStartCalls ==
    {c \in StartCalls : c.m \in {1, 3} /\ c.r = 50000
                        /\ c.f = RESULT_SUCCESS}

NumpyNext ==
    \/ Construct(0, RESULT_SUCCESS)
    \/ \E c \in NumpyStartCalls : a_in_scan_start(c.m, c.n, c.r, c.o, c.f)
    \/ \E c \in ReadCalls, a \in NoneArguments :
          a_in_scan_read_numpy(c.n, c.t, c.f, a)
    \/ a_in_scan_read_numpy_all
    \/ NumpyReadPoll
    \/ TimerExpire
    \/ \E n \in AcquireBlocks : Acquire(n)
    \/ BufferOverrun
    \/ a_in_scan_stop(RESULT_SUCCESS)
    \/ a_in_scan_cleanup(RESULT_SUCCESS)

NumpySpec == Init /\ [][NumpyNext]_vars

\* the step is one the list-form action A takes from the same state: the
\* same result apart from the operation's name, the same device state after
SameAsList(A) ==
    \A l \in {last'}, n \in {<<nativeVars, callVars, values_returned>>'} :
        ENABLED (/\ A
                 /\ last' = [l EXCEPT !.op = IF l.op = "read_numpy"
                                               THEN "read" ELSE l.op]
                 /\ <<nativeVars, callVars, values_returned>>' = n)

\* C35: from the same state and with the same arguments a_in_scan_read_numpy
\* raises the same error or returns the same flags and the same sample
\* values in the same order as a_in_scan_read, and leaves the scan in the
\* same state; with samples_per_channel = 0 both return no data
C35_ReadFormsEquivalent ==
    [][/\ \A c \in ReadCalls, a \in NoneArguments :
            a_in_scan_read_numpy(c.n, c.t, c.f, a)
              => SameAsList(a_in_scan_read(c.n, c.t, c.f))
       /\ a_in_scan_read_numpy_all => SameAsList(a_in_scan_read_all)
       /\ NumpyReadPoll => SameAsList(ReadPoll)
       /\ (last'.op = "read_numpy" /\ last'.outcome = "ok"
             /\ last'.samples_per_channel = 0) => last'.data = NoData]_vars

\* what an interrupt raised now would call: nothing, the function of the
\* registered object with the user_data it holds, or whatever a released
\* wrapper leads to
InEffect ==
    IF native_callback = NoNativeCallback THEN {NoInvocation}
    ELSE IF native_callback.alive
    THEN {handle_callback(callbacks[native_callback.object])}
    ELSE ReleasedWrapperCalls

\* C36: an interrupt_callback_enable that raises because the native enable
\* failed leaves in effect the callback and user_data registered before,
\* also when it was given the registered HatCallback object
C36_FailedEnableChangesNothing ==
    [][\A cb \in CallbackArguments, d \in UserData, f \in CallbackFaults :
          (interrupt_callback_enable(cb, d, TRUE, f)
             /\ ilast'.outcome = "Exception")
            => InEffect' = InEffect]_allVars

\* ------------------------------------- multi-HAT synchronous scan example
\* main of multi_hat_synchronous_scan.py: the calls that configure clock and
\* trigger and start the scans, the wait for the trigger, and the stop and
\* cleanup of its finally clause when the user ends the example with Ctrl-C
\* (the IEPE configuration, the reads and the printing leave the roles as
\* they are)
MASTER == 0
sample_rate == 10240

\* lists select_hat_devices can return: DEVICE_COUNT distinct addresses, in
\* the order of hat_list or in the order the user entered them
Selections ==
    {s \in [1..DEVICE_COUNT -> HatAddresses] :
        \A i, j \in 1..DEVICE_COUNT : i # j => s[i] # s[j]}

\* hats[i] of the example, the list index counted from 0
ListEntry(i) == selected[i + 1]

\* the test of the configuration loop: if hat.address() != MASTER
IsSlave(hat) == ObjectAddress(hat) # MASTER

\* the statement the configuration loop reaches from list index i on: the
\* slave configuration of the next board that passes the test, or the
\* configuration of the master after the loop
LoopFrom(sel, i) ==
    LET rest == {j \in i..(DEVICE_COUNT - 1) : IsSlave(sel[j + 1])}
    IN IF rest = {} THEN [at |-> "master_clock", i |-> MASTER]
       ELSE [at |-> "slave_clock",
             i |-> CHOOSE j \in rest : \A k \in rest : j <= k]

\* hats = select_hat_devices(HatIDs.MCC_172, DEVICE_COUNT)
select_hat_devices(sel) ==
    /\ xpc.at = "select"
    /\ selected' = sel
    /\ xpc' = LoopFrom(sel, 0)
    /\ UNCHANGED <<calcVars, dioVars, vars, groupVars, intVars>>

\* the call of the statement reached has returned
Returned ==
    /\ xpc.at \notin {"select", "started", "done"}
    /\ hlast.outcome = "ok"
    /\ hlast.address = ListEntry(xpc.i)
    /\ CASE xpc.at = "slave_clock" ->
              /\ hlast.op = "clock_config_write"
              /\ hlast.clock_source = SourceType_SLAVE
         [] xpc.at = "slave_trigger" ->
              /\ hlast.op = "trigger_config"
              /\ hlast.trigger_source = SourceType_SLAVE
         [] xpc.at = "master_clock" ->
              /\ hlast.op = "clock_config_write"
              /\ hlast.clock_source = SourceType_MASTER
         [] xpc.at = "sync_read" ->
              /\ hlast.op = "clock_config_read"
              /\ hlast.synchronized
         [] xpc.at = "master_trigger" ->
              /\ hlast.op = "trigger_config"
              /\ hlast.trigger_source = SourceType_MASTER
         [] xpc.at = "start" -> hlast.op = "start"
         [] xpc.at = "wait_for_trigger" ->
              /\ hlast.op = "status"
              /\ (~hlast.running \/ hlast.triggered)
         [] xpc.at = "stop" -> hlast.op = "stop"
         [] xpc.at = "cleanup" -> hlast.op = "cleanup"

\* the statement of main reached makes its call on the board object
ExampleCall ==
    /\ xpc.at \notin {"select", "started", "done"}
    /\ ~Returned
    /\ LET hat == ListEntry(xpc.i)
       IN CASE xpc.at = "slave_clock" ->
                 hat_a_in_clock_config_write(hat, SourceType_SLAVE,
                                             sample_rate, RESULT_SUCCESS)
            [] xpc.at = "slave_trigger" ->
                 hat_trigger_config(hat, SourceType_SLAVE,
                                    TriggerModes_RISING_EDGE, RESULT_SUCCESS)
            [] xpc.at = "master_clock" ->
                 hat_a_in_clock_config_write(hat, SourceType_MASTER,
                                             sample_rate, RESULT_SUCCESS)
            [] xpc.at = "sync_read" ->
                 hat_a_in_clock_config_read(hat, RESULT_SUCCESS)
            [] xpc.at = "master_trigger" ->
                 hat_trigger_config(hat, SourceType_MASTER,
                                    TriggerModes_RISING_EDGE, RESULT_SUCCESS)
            [] xpc.at = "start" ->
                 hat_a_in_scan_start(hat, OPT_EXTTRIGGER, RESULT_SUCCESS)
            [] xpc.at = "wait_for_trigger" ->
                 hat_a_in_scan_status(hat, RESULT_SUCCESS)
            [] xpc.at = "stop" -> hat_a_in_scan_stop(hat, RESULT_SUCCESS)
            [] xpc.at = "cleanup" ->
                 hat_a_in_scan_cleanup(hat, RESULT_SUCCESS)

\* main goes on to its next statement
ExampleAdvance ==
    /\ Returned
    /\ xpc' =
         CASE xpc.at = "slave_clock" -> [xpc EXCEPT !.at = "slave_trigger"]
           [] xpc.at = "slave_trigger" -> LoopFrom(selected, xpc.i + 1)
           [] xpc.at = "master_clock" -> [xpc EXCEPT !.at = "sync_read"]
           [] xpc.at = "sync_read" -> [xpc EXCEPT !.at = "master_trigger"]
           [] xpc.at = "master_trigger" -> [at |-> "start", i |-> 0]
           [] xpc.at = "start" ->
                IF xpc.i + 1 < DEVICE_COUNT
                THEN [at |-> "start", i |-> xpc.i + 1]
                ELSE [at |-> "wait_for_trigger", i |-> MASTER]
           [] xpc.at = "wait_for_trigger" -> [at |-> "started", i |-> 0]
           [] xpc.at = "stop" -> [xpc EXCEPT !.at = "cleanup"]
           [] xpc.at = "cleanup" ->
                IF xpc.i + 1 < DEVICE_COUNT
                THEN [at |-> "stop", i |-> xpc.i + 1]
                ELSE [at |-> "done", i |-> 0]
    /\ UNCHANGED <<selected, calcVars, dioVars, vars, groupVars, intVars>>

\* the trigger input of a board running a scan with EXTTRIGGER sees its
\* edge: on the terminal of a board that is not a trigger slave, from the
\* triggered master on a slave
HatTrigger(address) ==
    /\ hats[address].scan_active
    /\ HasBit(hats[address].status, STATUS_RUNNING)
    /\ ~HasBit(hats[address].status, STATUS_TRIGGERED)
    /\ hats[address].trigger_source = SourceType_SLAVE =>
          \E m \in HatAddresses :
             /\ hats[m].trigger_source = SourceType_MASTER
             /\ HasBit(hats[m].status, STATUS_TRIGGERED)
    /\ hats' = [hats EXCEPT ![address].status = @ + STATUS_TRIGGERED]
    /\ UNCHANGED <<hlast, vars, intVars, restVars>>

\* Ctrl-C while the example waits for the trigger or reads: main goes to
\* its finally clause
KeyboardInterrupt ==
    /\ xpc.at \in {"wait_for_trigger", "started"}
    /\ xpc' = [at |-> "stop", i |-> 0]
    /\ UNCHANGED <<selected, calcVars, dioVars, vars, groupVars, intVars>>

ExampleNext ==
    \/ \E sel \in Selections : select_hat_devices(sel)
    \/ ExampleCall
    \/ ExampleAdvance
    \/ KeyboardInterrupt
    \/ \E a \in HatAddresses : HatSyncComplete(a)
    \/ \E a \in HatAddresses : HatTrigger(a)
    \/ \E a \in HatAddresses : HatAcquire(a)

ExampleSpec == GroupInit /\ [][ExampleNext]_allVars

\* C37: when the example starts the scans the board at list index 0 has the
\* MASTER clock and trigger role and every other board of the list the
\* SLAVE role, and every slave was configured before the master
C37_ExampleRoleAssignment ==
    /\ [](xpc.at \in {"start", "wait_for_trigger", "started"} =>
            \A i \in 0..(DEVICE_COUNT - 1) :
               LET role == IF i = MASTER THEN SourceType_MASTER
                           ELSE SourceType_SLAVE
               IN /\ hats[ListEntry(i)].clock_source = role
                  /\ hats[ListEntry(i)].trigger_source = role)
    /\ [][(xpc.at = "master_clock" /\ hats' # hats) =>
            \A i \in 1..(DEVICE_COUNT - 1) :
               /\ hats[ListEntry(i)].clock_source = SourceType_SLAVE
               /\ hats[ListEntry(i)].trigger_source = SourceType_SLAVE]_allVars

\* ------------------------------------------------ MCC 152 analog output
\* voltages are counted in steps of 1/4096 V, the LSB of the 5 V range:
\* _MAX_VOLTAGE = 5.0 * (4095 / 4096) V is 20475 steps, 5 V is 20480
OPT_NOSCALEDATA == 1
AOUT_NUM_CHANNELS == 2
MIN_CODE == 0
MAX_CODE == 4095
MIN_VOLTAGE == 0
MAX_VOLTAGE == 20475

\* inputs: channels around the valid two, values below, inside and above
\* the code range and the voltage range, lists of one and of two values
AOutChannels == {0, 1, 2}
AOutValues == {-1, 2048, 4096, 20480}
AOutOptions == {OPT_DEFAULT, OPT_NOSCALEDATA}
AOutLists ==
    {<<v>> : v \in {2048}} \cup {<<v, w>> : v, w \in AOutValues}

\* the value after the limiting if / elif of a_out_write
Limited(value, options) ==
    IF HasBit(options, OPT_NOSCALEDATA)
    THEN (IF value < MIN_CODE THEN MIN_CODE
          ELSE IF value > MAX_CODE THEN MAX_CODE ELSE value)
    ELSE (IF value < MIN_VOLTAGE THEN MIN_VOLTAGE
          ELSE IF value > MAX_VOLTAGE THEN MAX_VOLTAGE ELSE value)

\* the value is one the DAC can be given
InDacRange(value, options) ==
    IF HasBit(options, OPT_NOSCALEDATA)
    THEN value \in MIN_CODE..MAX_CODE
    ELSE value \in MIN_VOLTAGE..MAX_VOLTAGE

\* mcc152_a_out_write of the native library
NativeAOutWrite(channel, options, value, fault) ==
    IF fault # RESULT_SUCCESS THEN [code |-> fault, aout |-> aout]
    ELSE IF ~InDacRange(value, options)
    THEN [code |-> RESULT_BAD_PARAMETER, aout |-> aout]
    ELSE [code |-> RESULT_SUCCESS,
          aout |-> [aout EXCEPT ![channel] =
                      [value |-> value, options |-> options]]]

\* mcc152_a_out_write_all of the native library: the first two elements of
\* the array, in channel order
NativeAOutWriteAll(options, data_array, fault) ==
    IF fault # RESULT_SUCCESS THEN [code |-> fault, aout |-> aout]
    ELSE IF \E c \in 1..AOUT_NUM_CHANNELS : ~InDacRange(data_array[c], options)
    THEN [code |-> RESULT_BAD_PARAMETER, aout |-> aout]
    ELSE [code |-> RESULT_SUCCESS,
          aout |-> [c \in 0..(AOUT_NUM_CHANNELS - 1) |->
                      [value |-> data_array[c + 1], options |-> options]]]

a_out_write(channel, value, options, fault) ==
    /\ IF channel \notin 0..(AOUT_NUM_CHANNELS - 1)
       THEN /\ mlast' = [NoMcc152Result EXCEPT
                           !.op = "a_out_write", !.outcome = "ValueError",
                           !.msg = "Invalid channel.",
                           !.channel = channel, !.options = options,
                           !.requested = <<value>>]
            /\ UNCHANGED aout
       ELSE LET native == NativeAOutWrite(channel, options,
                                          Limited(value, options), fault)
                res == DioOutcome(native.code)
            IN /\ aout' = native.aout
               /\ mlast' = [NoMcc152Result EXCEPT
                              !.op = "a_out_write",
                              !.outcome = res.outcome, !.msg = res.msg,
                              !.channel = channel, !.options = options,
                              !.requested = <<value>>,
                              !.passed = <<Limited(value, options)>>,
                              !.writes = 1, !.fault = fault]
    /\ UNCHANGED <<dio_output, calcVars, exVars, vars, groupVars, intVars>>

\* the list after the loop "for value in values:" of a_out_write_all: the
\* limiting assigns to the loop variable, the elements of values stay
ValuesAfterLoop(values, options) == values

\* mapping of the native a_out_write_all result
AOutAllOutcome(result) ==
    IF result = RESULT_BAD_PARAMETER
    THEN [outcome |-> "ValueError", msg |-> "Invalid value."]
    ELSE IF result # RESULT_SUCCESS
    THEN [outcome |-> "HatError", msg |-> "Incorrect response."]
    ELSE [outcome |-> "ok", msg |-> ""]

a_out_write_all(values, options, fault) ==
    /\ IF Len(values) < AOUT_NUM_CHANNELS
       THEN /\ mlast' = [NoMcc152Result EXCEPT
                           !.op = "a_out_write_all",
                           !.outcome = "ValueError",
                           !.msg = "Not enough elements in values.",
                           !.options = options, !.requested = values]
            /\ UNCHANGED aout
       ELSE LET data_array == ValuesAfterLoop(values, options)
                native == NativeAOutWriteAll(options, data_array, fault)
                res == AOutAllOutcome(native.code)
            IN /\ aout' = native.aout
               /\ mlast' = [NoMcc152Result EXCEPT
                              !.op = "a_out_write_all",
                              !.outcome = res.outcome, !.msg = res.msg,
                              !.options = options,
                              !.requested = values,
                              !.passed = data_array,
                              !.writes = 1, !.fault = fault]
    /\ UNCHANGED <<dio_output, calcVars, exVars, vars, groupVars, intVars>>

AOutNext ==
    \/ \E c \in AOutChannels, v \in AOutValues, o \in AOutOptions,
          f \in CallFaults : a_out_write(c, v, o, f)
    \/ \E l \in AOutLists, o \in AOutOptions, f \in CallFaults :
          a_out_write_all(l, o, f)

AOutSpec == Init /\ [][AOutNext]_allVars

\* C38: a_out_write passes the value limited to the DAC range and raises no
\* error for a value outside it, and a_out_write_all passes for each of the
\* two channels the limited value a_out_write would pass
C38_UniformLimiting ==
    /\ (mlast.op = "a_out_write"
          /\ mlast.channel \in 0..(AOUT_NUM_CHANNELS - 1)) =>
         /\ mlast.passed = <<Limited(mlast.requested[1], mlast.options)>>
         /\ InDacRange(mlast.passed[1], mlast.options)
         /\ mlast.fault = RESULT_SUCCESS => mlast.outcome = "ok"
    /\ (mlast.op = "a_out_write_all"
          /\ Len(mlast.requested) >= AOUT_NUM_CHANNELS) =>
         \A c \in 1..AOUT_NUM_CHANNELS :
            mlast.passed[c] = Limited(mlast.requested[c], mlast.options)
====
